---- MODULE Spec2Model ----
(***************************************************************************)
(* Complexity and issue-detection engine of the code analyzer.             *)
(*                                                                         *)
(* A syntax tree is a record [n, parent, kind]: nodes are numbered 1..n in *)
(* pre-order (a node's children are the nodes naming it as parent, in      *)
(* ascending order, which is tree-sitter's `children` order), parent[1]=0. *)
(* kind[i] = [type, text, field]: the node's type tag, the text of the     *)
(* field child the analyzers read from it (`operator` of an expression,    *)
(* `function` of a call, `name` of a function or class; "" when the field  *)
(* is absent) and the field name under which the node hangs in its parent. *)
(***************************************************************************)
EXTENDS Integers, Sequences, FiniteSets, TLC

VARIABLES pc, op, lang, tree, complexity, run, analysis, prev, now, reported,
          defaults, config, env, batch, fault, history

vars == <<pc, op, lang, tree, complexity, run, analysis, prev, now, reported,
          defaults, config, env, batch, fault, history>>

K(type, text, field) == [type |-> type, text |-> text, field |-> field]

(* ------------------------------ bounds --------------------------------- *)

\* nodes below the function node in the trees given to the cyclomatic calculator
MaxCycNodes == 3

\* nodes below the function node in the trees given to the cognitive calculator
MaxCogNodes == 4

\* nodes below the root, imports aside, in the source files given to parse
MaxFileNodes == 3

\* the same for the source files that are parsed twice
MaxReparseNodes == 2

\* the latest reading of the clock
MaxClock == 1

\* nodes below the root in the trees given to the nested-loop detector
MaxLoopNodes == 4

\* nodes below the root in the trees given to the magic-number detector
MaxNumberNodes == 3

\* calls in the functions given to the interval-leak detector
MaxCalls == 3

\* comparisons nested in the expressions given to the type-coercion detector
MaxComparisons == 3

\* analysis records the history database holds at most
MaxStored == 6

\* the latest timestamp a record is saved with
MaxTimestamp == 1

\* nodes below the root in the files of an analyze run
MaxCommandNodes == 2

\* directories from the start path up to the root
MaxDirs == 2

\* paths handed to analyzeFilesWithErrors in one call
MaxPaths == 3

\* top-level functions and classes of the files with classes
MaxItems == 3

\* parameters of the Python functions given to countPythonParameters
MaxParameterNodes == 3

\* statements of the functions given to the unused-variable detector
MaxStatements == 3

(* --------------------------- tree-sitter node --------------------------- *)

\* node.children: the ordered child list
Children(t, node) ==
  SelectSeq([i \in 1..t.n |-> i], LAMBDA j : t.parent[j] = node)

\* node.type
TypeOf(t, node) == t.kind[node].type

\* node.parent (0: no parent)
ParentOf(t, node) == t.parent[node]

\* the ancestors of a node, nearest first
RECURSIVE Ancestors(_, _)
Ancestors(t, node) ==
  IF t.parent[node] = 0 THEN <<>>
  ELSE <<t.parent[node]>> \o Ancestors(t, t.parent[node])

SeqToSet(s) == {s[i] : i \in DOMAIN s}

\* the nodes of the subtree rooted at a node, the node included
Subtree(t, node) == {i \in 1..t.n : i = node \/ node \in SeqToSet(Ancestors(t, i))}

\* parent vectors numbered in pre-order: the parent of node i is the previous
\* node or one of the previous node's ancestors
IsPreorder(n, p) ==
  \A i \in 2..n :
     \/ p[i] = i - 1
     \/ p[i] \in SeqToSet(Ancestors([parent |-> p], i - 1))

Shapes(n) ==
  {p \in {<<0>> \o q : q \in [1..(n - 1) -> 1..(n - 1)]} :
      /\ \A i \in 2..n : p[i] \in 1..(i - 1)
      /\ IsPreorder(n, p)}

\* the tree of n nodes with parent vector p, root kind r and inner kinds k
MkTree(n, p, r, k) == [n |-> n, parent |-> p, kind |-> <<r>> \o k]

\* some tree of at most `extra` nodes below a root of one of the root kinds
\* satisfies P
SomeTree(extra, rootKinds, kinds, P(_)) ==
  \E n \in 1..(extra + 1) :
     \E p \in Shapes(n) :
        \E r \in rootKinds :
           \E k \in [1..(n - 1) -> kinds] : P(MkTree(n, p, r, k))

(* ------------------- parses of the calculator test sources -------------- *)

\* function simple() { return 1; }
SimpleFixture ==
  [n |-> 13,
   parent |-> <<0, 1, 1, 1, 4, 4, 1, 7, 7, 9, 9, 9, 7>>,
   kind |-> <<
       K("function_declaration", "simple", ""),
       K("function", "", ""),
       K("identifier", "", "name"),
       K("formal_parameters", "", "parameters"),
       K("(", "", ""),
       K(")", "", ""),
       K("statement_block", "", "body"),
       K("{", "", ""),
       K("return_statement", "", ""),
       K("return", "", ""),
       K("number", "", ""),
       K(";", "", ""),
       K("}", "", "")>>]

\* function withIf(x) { if (x > 0) { return 1; } return 0; }
WithIfFixture ==
  [n |-> 30,
   parent |-> <<0, 1, 1, 1, 4, 4, 4, 1, 8, 8, 10, 10, 12, 12, 14, 14, 14, 12, 10, 19, 19, 21, 21, 21, 19, 8, 26, 26, 26, 8>>,
   kind |-> <<
       K("function_declaration", "withIf", ""),
       K("function", "", ""),
       K("identifier", "", "name"),
       K("formal_parameters", "", "parameters"),
       K("(", "", ""),
       K("identifier", "", ""),
       K(")", "", ""),
       K("statement_block", "", "body"),
       K("{", "", ""),
       K("if_statement", "", ""),
       K("if", "", ""),
       K("parenthesized_expression", "", "condition"),
       K("(", "", ""),
       K("binary_expression", ">", ""),
       K("identifier", "", "left"),
       K(">", "", "operator"),
       K("number", "", "right"),
       K(")", "", ""),
       K("statement_block", "", "consequence"),
       K("{", "", ""),
       K("return_statement", "", ""),
       K("return", "", ""),
       K("number", "", ""),
       K(";", "", ""),
       K("}", "", ""),
       K("return_statement", "", ""),
       K("return", "", ""),
       K("number", "", ""),
       K(";", "", ""),
       K("}", "", "")>>]

\* function withIfElse(x) { if (x > 0) { return 1; } else { return -1; } }
WithIfElseFixture ==
  [n |-> 37,
   parent |-> <<0, 1, 1, 1, 4, 4, 4, 1, 8, 8, 10, 10, 12, 12, 14, 14, 14, 12, 10, 19, 19, 21, 21, 21, 19, 10, 26, 26, 28, 28, 30, 30, 32, 32, 30, 28, 8>>,
   kind |-> <<
       K("function_declaration", "withIfElse", ""),
       K("function", "", ""),
       K("identifier", "", "name"),
       K("formal_parameters", "", "parameters"),
       K("(", "", ""),
       K("identifier", "", ""),
       K(")", "", ""),
       K("statement_block", "", "body"),
       K("{", "", ""),
       K("if_statement", "", ""),
       K("if", "", ""),
       K("parenthesized_expression", "", "condition"),
       K("(", "", ""),
       K("binary_expression", ">", ""),
       K("identifier", "", "left"),
       K(">", "", "operator"),
       K("number", "", "right"),
       K(")", "", ""),
       K("statement_block", "", "consequence"),
       K("{", "", ""),
       K("return_statement", "", ""),
       K("return", "", ""),
       K("number", "", ""),
       K(";", "", ""),
       K("}", "", ""),
       K("else_clause", "", "alternative"),
       K("else", "", ""),
       K("statement_block", "", ""),
       K("{", "", ""),
       K("return_statement", "", ""),
       K("return", "", ""),
       K("unary_expression", "-", ""),
       K("-", "", "operator"),
       K("number", "", "argument"),
       K(";", "", ""),
       K("}", "", ""),
       K("}", "", "")>>]

\* function f(x){ if (x>0) return 1; else return -1; }
WithIfElseBareFixture ==
  [n |-> 31,
   parent |-> <<0, 1, 1, 1, 4, 4, 4, 1, 8, 8, 10, 10, 12, 12, 14, 14, 14, 12, 10, 19, 19, 19, 10, 23, 23, 25, 25, 27, 27, 25, 8>>,
   kind |-> <<
       K("function_declaration", "f", ""),
       K("function", "", ""),
       K("identifier", "", "name"),
       K("formal_parameters", "", "parameters"),
       K("(", "", ""),
       K("identifier", "", ""),
       K(")", "", ""),
       K("statement_block", "", "body"),
       K("{", "", ""),
       K("if_statement", "", ""),
       K("if", "", ""),
       K("parenthesized_expression", "", "condition"),
       K("(", "", ""),
       K("binary_expression", ">", ""),
       K("identifier", "", "left"),
       K(">", "", "operator"),
       K("number", "", "right"),
       K(")", "", ""),
       K("return_statement", "", ""),
       K("return", "", ""),
       K("number", "", ""),
       K(";", "", ""),
       K("else_clause", "", "alternative"),
       K("else", "", ""),
       K("return_statement", "", ""),
       K("return", "", ""),
       K("unary_expression", "-", ""),
       K("-", "", "operator"),
       K("number", "", "argument"),
       K(";", "", ""),
       K("}", "", "")>>]


(* ------------------------- CyclomaticComplexity ------------------------- *)

Languages == {"javascript", "typescript", "python"}

CommonDecisionNodes ==
  {"if_statement", "for_statement", "while_statement", "do_statement",
   "switch_case", "catch_clause", "ternary_expression", "conditional_expression"}

\* slip: only the node types common to all languages are registered
getDecisionNodes_CommonOnly(language) == CommonDecisionNodes

getDecisionNodes(language) ==
  CommonDecisionNodes
    \cup (IF language \in {"javascript", "typescript"}
          THEN {"logical_expression", "binary_expression"} ELSE {})
    \cup (IF language = "python"
          THEN {"boolean_operator", "elif_clause", "except_clause"} ELSE {})

\* the closure `traverse` of calculate: returns the counter after the subtree
RECURSIVE CycTraverse(_, _, _, _), CycChildren(_, _, _, _, _)
CycTraverse(t, decisionNodes, node, count) ==
  LET counted == IF TypeOf(t, node) \in decisionNodes THEN count + 1 ELSE count
  IN  CycChildren(t, decisionNodes, Children(t, node), 1, counted)

CycChildren(t, decisionNodes, kids, i, count) ==
  IF i > Len(kids) THEN count
  ELSE CycChildren(t, decisionNodes, kids, i + 1,
                   CycTraverse(t, decisionNodes, kids[i], count))

\* slip: the base path is not counted
CyclomaticCalculate_NoBase(language, t, functionNode) ==
  CycTraverse(t, getDecisionNodes(language), functionNode, 0)

CyclomaticCalculate(language, t, functionNode) ==
  CycTraverse(t, getDecisionNodes(language), functionNode, 1)

(* ------------------------- CognitiveComplexity -------------------------- *)

CommonBreakFlowNodes ==
  {"if_statement", "for_statement", "while_statement", "do_statement",
   "switch_statement", "catch_clause", "ternary_expression", "conditional_expression"}

getBreakFlowNodes(language) ==
  CommonBreakFlowNodes
    \cup (IF language = "python" THEN {"except_clause", "with_statement"} ELSE {})

isElseIf(t, node) ==
  IF TypeOf(t, node) # "if_statement" THEN FALSE
  ELSE IF ParentOf(t, node) = 0 THEN FALSE
  ELSE TypeOf(t, ParentOf(t, node)) = "else_clause"

\* the `operator` field child is the node's text attribute; "" when absent
isLogicalOperator(t, node) ==
  IF TypeOf(t, node) \in {"logical_expression", "boolean_operator"}
  THEN IF t.kind[node].text # ""
       THEN t.kind[node].text \in {"&&", "||", "and", "or"}
       ELSE FALSE
  ELSE FALSE

getFunctionName(t, node) ==
  IF t.kind[node].text # "" THEN t.kind[node].text ELSE "<anonymous>"

getCallName(t, node) == t.kind[node].text

isRecursiveCall(t, node, functionNode) ==
  IF TypeOf(t, node) # "call_expression" THEN FALSE
  ELSE /\ getFunctionName(t, functionNode) # "<anonymous>"
       /\ getFunctionName(t, functionNode) = getCallName(t, node)

\* The closure `traverse` of calculate.  st.complexity and st.nestingLevel are
\* the two variables the closure shares between all its invocations; st.at and
\* st.added record, per node, the parentNesting the node was entered with and
\* the amount the visit of the node itself added to complexity.
RECURSIVE CogTraverse(_, _, _, _, _, _), CogChildren(_, _, _, _, _, _)
CogTraverse(t, breakFlowNodes, functionNode, node, parentNesting, st) ==
  LET isBreakFlow == TypeOf(t, node) \in breakFlowNodes
      c1 == IF isBreakFlow THEN st.complexity + (1 + parentNesting) ELSE st.complexity
      c2 == IF isBreakFlow /\ isElseIf(t, node) THEN c1 - (1 + parentNesting) ELSE c1
      nl == IF isBreakFlow THEN parentNesting + 1 ELSE parentNesting
      c3 == IF isLogicalOperator(t, node) THEN c2 + 1 ELSE c2
      c4 == IF isRecursiveCall(t, node, functionNode) THEN c3 + 1 ELSE c3
  IN  CogChildren(t, breakFlowNodes, functionNode, Children(t, node), 1,
                  [complexity |-> c4,
                   nestingLevel |-> nl,
                   at |-> [st.at EXCEPT ![node] = parentNesting],
                   added |-> [st.added EXCEPT ![node] = c4 - st.complexity]])

CogChildren(t, breakFlowNodes, functionNode, kids, i, st) ==
  IF i > Len(kids) THEN st
  ELSE CogChildren(t, breakFlowNodes, functionNode, kids, i + 1,
                   CogTraverse(t, breakFlowNodes, functionNode, kids[i],
                               st.nestingLevel, st))

CognitiveRun(language, t, functionNode) ==
  CogTraverse(t, getBreakFlowNodes(language), functionNode, functionNode, 0,
              [complexity |-> 0, nestingLevel |-> 0,
               at |-> [i \in 1..t.n |-> 0], added |-> [i \in 1..t.n |-> 0]])

CognitiveCalculate(language, t, functionNode) ==
  CognitiveRun(language, t, functionNode).complexity

(* ------------------------------ source text ----------------------------- *)

\* The source text behind a tree: every node starts a line of its own, in
\* pre-order, so node i starts on row i - 1 and ends on the row of its last
\* descendant; the file's first line, where the root starts, is blank.
startRow(t, node) == node - 1

SetMax(S) == CHOOSE m \in S : \A x \in S : x <= m

LastOf(t, node) == SetMax(Subtree(t, node))

endRow(t, node) == LastOf(t, node) - 1

IsPython(languageName) == languageName = "Python"

\* the trimmed start of source line `row`: "" for a blank line, the comment
\* marker for a comment line, "code" otherwise
LineStart(languageName, t, row) ==
  IF row = 0 THEN ""
  ELSE IF TypeOf(t, row + 1) = "comment"
       THEN (IF IsPython(languageName) THEN "#" ELSE "//")
       ELSE "code"

\* the TODO-style keyword on source line `row` ("" when there is none)
LineKeyword(t, row) ==
  IF row # 0 /\ TypeOf(t, row + 1) = "comment" THEN t.kind[row + 1].text ELSE ""

CommentMarkers == {"//", "/*", "*", "#"}

\* BaseParser.countLines on the lines first..last of the source
countLines(languageName, t, first, last) ==
  [total |-> last - first + 1,
   effective |-> Cardinality({row \in first..last :
                     /\ LineStart(languageName, t, row) # ""
                     /\ LineStart(languageName, t, row) \notin CommentMarkers})]

(* ------------------------------ BaseParser ------------------------------ *)

\* node.childForFieldName(name): 0 when the field is absent
childForFieldName(t, node, name) ==
  LET hits == SelectSeq(Children(t, node), LAMBDA c : t.kind[c].field = name)
  IN  IF hits = <<>> THEN 0 ELSE hits[1]

\* the nodes of the subtree of `node` in pre-order, which is index order
Ascending(S, n) == SelectSeq([i \in 1..n |-> i], LAMBDA j : j \in S)

Preorder(t, node) == Ascending(Subtree(t, node), t.n)

extractFunctions(t, node, functionTypes) ==
  SelectSeq(Preorder(t, node), LAMBDA j : TypeOf(t, j) \in functionTypes)

countParameters(t, node) ==
  LET params == childForFieldName(t, node, "parameters")
  IN  IF params = 0 THEN 0
      ELSE Len(SelectSeq(Children(t, params),
                         LAMBDA c : TypeOf(t, c) \notin {"(", ")", ","}))

\* numbers with one decimal are held as integer tenths
Tenths(x) == 10 * x

\* slip: the base path is left out of the empty record
createEmptyMetrics_NoBase ==
  [cyclomaticComplexity |-> 0,
   cognitiveComplexity |-> 0,
   linesOfCode |-> 0,
   effectiveLinesOfCode |-> 0,
   nestingDepth |-> 0,
   functionLength |-> 0,
   parameterCount |-> 0]

createEmptyMetrics ==
  [cyclomaticComplexity |-> Tenths(1),
   cognitiveComplexity |-> 0,
   linesOfCode |-> 0,
   effectiveLinesOfCode |-> 0,
   nestingDepth |-> 0,
   functionLength |-> 0,
   parameterCount |-> 0]

(* ------------------------------ DEFAULT_CONFIG -------------------------- *)

cyclomaticThreshold == 10

cognitiveThreshold == 15

maxNestingDepth == 4

maxFunctionLength == 50

maxParameters == 5

(* ------------------------------ detectors ------------------------------- *)

Issue(type, category, severity, line) ==
  [type |-> type, category |-> category, severity |-> severity, line |-> line,
   fix |-> "none"]

RECURSIVE Concat(_)
Concat(ss) == IF ss = <<>> THEN <<>> ELSE Head(ss) \o Concat(Tail(ss))

\* the issue lists f(s[1]), f(s[2]), ... appended in order
FlatMap(s, f(_)) == Concat([i \in 1..Len(s) |-> f(s[i])])

Max2(a, b) == IF a >= b THEN a ELSE b

\* detectIssues of both parsers: the threshold checks on a function's metrics
detectIssues(metrics, line) ==
  (IF metrics.cyclomaticComplexity > cyclomaticThreshold
   THEN <<Issue("HIGH_COMPLEXITY", "COMPLEXITY",
                IF metrics.cyclomaticComplexity > 20 THEN "critical" ELSE "high", line)>>
   ELSE <<>>)
  \o (IF metrics.cognitiveComplexity > cognitiveThreshold
      THEN <<Issue("HIGH_COMPLEXITY", "COMPLEXITY",
                   IF metrics.cognitiveComplexity > 25 THEN "critical" ELSE "high", line)>>
      ELSE <<>>)
  \o (IF metrics.nestingDepth > maxNestingDepth
      THEN <<Issue("DEEP_NESTING", "COMPLEXITY", "medium", line)>>
      ELSE <<>>)
  \o (IF metrics.functionLength > maxFunctionLength
      THEN <<Issue("LONG_FUNCTION", "MAINTAINABILITY",
                   IF metrics.functionLength > 100 THEN "high" ELSE "medium", line)>>
      ELSE <<>>)
  \o (IF metrics.parameterCount > maxParameters
      THEN <<Issue("TOO_MANY_PARAMETERS", "MAINTAINABILITY", "medium", line)>>
      ELSE <<>>)

\* CodeSmellDetector.detectTodoComments over the lines first..last of the
\* text the detector was built with; line numbers count from that text's start
detectTodoComments(t, first, last) ==
  LET lineIssue(row) ==
        IF LineKeyword(t, row) \in {"TODO", "FIXME", "HACK"}
        THEN <<Issue("TODO_COMMENT", "MAINTAINABILITY",
                     IF LineKeyword(t, row) = "FIXME" THEN "medium" ELSE "low",
                     (row - first) + 1)>>
        ELSE <<>>
  IN  FlatMap([i \in 1..(last - first + 1) |-> first + i - 1], lineIssue)

LoopTypes == {"for_statement", "while_statement", "for_in_statement", "for_of_statement"}

\* countLoopDepth of detectNestedLoops
RECURSIVE countLoopDepth(_, _, _)
countLoopDepth(t, node, depth) ==
  LET d == IF TypeOf(t, node) \in LoopTypes THEN depth + 1 ELSE depth
      kids == Children(t, node)
  IN  SetMax({d} \cup {countLoopDepth(t, kids[i], d) : i \in 1..Len(kids)})

\* PerformanceDetector.detectNestedLoops
detectNestedLoops(t, node) ==
  LET loopIssue(n) ==
        IF TypeOf(t, n) \in LoopTypes /\ countLoopDepth(t, n, 0) >= 2
        THEN <<Issue("NESTED_LOOPS", "PERFORMANCE",
                     IF countLoopDepth(t, n, 0) >= 3 THEN "critical" ELSE "high",
                     startRow(t, n) + 1)>>
        ELSE <<>>
  IN  FlatMap(Preorder(t, node), loopIssue)

\* parseFloat(n.text), for the literals of the sampled sources
parseFloat(text) ==
  CASE text = "8" -> 8
    [] text = "42" -> 42
    [] text = "100" -> 100
    [] text = "302" -> 302
    [] OTHER -> 0

acceptableNumbers ==
  {0, 1, -1, 2, 10, 100, 1000, 60, 24, 7, 200, 201, 204, 400, 401, 403, 404,
   500, 502, 503, 16, 32, 64, 128, 256, 512, 1024}

\* the words of the source text of a node: for every node of its subtree the
\* text the node carries (a literal, an operator, a callee or a property name)
SourceWords(t, node) == {t.kind[j].text : j \in Subtree(t, node)}

\* the words the regular expressions of detectMagicNumbers look for
TimeWords ==
  {"setTimeout", "setInterval", "delay", "wait", "sleep", "millisecond",
   "second", "minute", "hour", "day"}

PercentWords == {"percent", "%", "ratio", "fraction"}

isArrayIndex(t, node) ==
  ParentOf(t, node) # 0 /\ TypeOf(t, ParentOf(t, node)) = "subscript_expression"

isTimeRelated(t, node) ==
  ParentOf(t, node) # 0 /\ SourceWords(t, ParentOf(t, node)) \cap TimeWords # {}

isHTTPStatus(value) == value >= 100 /\ value < 600

\* (n.parent?.parent?.text || '').includes('status')
InStatusContext(t, node) ==
  /\ ParentOf(t, node) # 0
  /\ ParentOf(t, ParentOf(t, node)) # 0
  /\ "status" \in SourceWords(t, ParentOf(t, ParentOf(t, node)))

isPercentage(t, node) ==
  /\ ParentOf(t, node) # 0
  /\ \/ SourceWords(t, ParentOf(t, node)) \cap PercentWords # {}
     \/ t.kind[node].text = "100" /\ "/" \in SourceWords(t, ParentOf(t, node))

\* CodeSmellDetector.detectMagicNumbers
detectMagicNumbers(t, node) ==
  LET numberIssue(n) ==
        IF /\ TypeOf(t, n) = "number"
           /\ parseFloat(t.kind[n].text) \notin acceptableNumbers
           /\ ~isArrayIndex(t, n)
           /\ ~isTimeRelated(t, n)
           /\ ~(isHTTPStatus(parseFloat(t.kind[n].text)) /\ InStatusContext(t, n))
           /\ ~isPercentage(t, n)
        THEN <<Issue("MAGIC_NUMBER", "CODE_SMELL", "low", startRow(t, n) + 1)>>
        ELSE <<>>
  IN  FlatMap(Preorder(t, node), numberIssue)

\* the callee of a call: the text of its `function` child when that child is
\* an identifier, "" otherwise
CalleeIdentifier(t, n) ==
  LET Name(functionNode) ==
        IF functionNode # 0 /\ TypeOf(t, functionNode) = "identifier"
        THEN t.kind[functionNode].text ELSE ""
  IN  IF TypeOf(t, n) = "call_expression"
      THEN Name(childForFieldName(t, n, "function")) ELSE ""

\* MemoryLeakDetector.detectIntervalLeaks
detectIntervalLeaks(t, node) ==
  LET Report(setCalls, clearCalls) ==
        IF setCalls # <<>> /\ clearCalls = <<>>
        THEN <<Issue("INTERVAL_LEAK", "MEMORY_LEAK", "critical",
                     startRow(t, setCalls[Len(setCalls)]) + 1)>>
        ELSE <<>>
  IN  Report(SelectSeq(Preorder(t, node),
                       LAMBDA n : CalleeIdentifier(t, n) = "setInterval"),
             SelectSeq(Preorder(t, node),
                       LAMBDA n : CalleeIdentifier(t, n) = "clearInterval"))

\* the text of the child in a field, "" when there is no such child
FieldText(t, n, field) ==
  LET Text(c) == IF c = 0 THEN "" ELSE t.kind[c].text
  IN  Text(childForFieldName(t, n, field))

isLooseComparison(t, n) ==
  TypeOf(t, n) = "binary_expression" /\ FieldText(t, n, "operator") \in {"==", "!="}

isNullCheck(t, n) ==
  \/ FieldText(t, n, "left") = "null" \/ FieldText(t, n, "right") = "null"
  \/ FieldText(t, n, "left") = "undefined" \/ FieldText(t, n, "right") = "undefined"

\* the closure `traverse` of detectTypeCoercion: a null check returns before
\* the loop over the children
RECURSIVE CoercionTraverse(_, _, _), CoercionChildren(_, _, _, _)
CoercionTraverse(t, n, issues) ==
  IF isLooseComparison(t, n) /\ isNullCheck(t, n) THEN issues
  ELSE CoercionChildren(t, Children(t, n), 1,
         IF isLooseComparison(t, n)
         THEN Append(issues, Issue("TYPE_COERCION", "MAINTAINABILITY", "medium",
                                   startRow(t, n) + 1))
         ELSE issues)

CoercionChildren(t, kids, i, issues) ==
  IF i > Len(kids) THEN issues
  ELSE CoercionChildren(t, kids, i + 1, CoercionTraverse(t, kids[i], issues))

\* CodeSmellDetector.detectTypeCoercion
detectTypeCoercion(t, node) == CoercionTraverse(t, node, <<>>)

\* name.startsWith('_'), for the variable names of the sampled sources
StartsWithUnderscore(name) == name \in {"_unused", "_"}

\* the variable_declarator nodes whose `name` child is an identifier
Declarators(t, node) ==
  SelectSeq(Preorder(t, node),
            LAMBDA j : /\ TypeOf(t, j) = "variable_declarator"
                       /\ childForFieldName(t, j, "name") # 0
                       /\ TypeOf(t, childForFieldName(t, j, "name")) = "identifier")

DeclaredName(t, declarator) == t.kind[childForFieldName(t, declarator, "name")].text

\* collectDeclarations: the Map declaredVars as the list of its entries, each
\* name at the place of its first declaration with the line of its last one
declaredVars(t, node) ==
  LET Entries(ds) ==
        LET first == SelectSeq([i \in 1..Len(ds) |-> i],
                       LAMBDA i : \A h \in 1..(i - 1) :
                                     DeclaredName(t, ds[h]) # DeclaredName(t, ds[i]))
            LastOfName(name) ==
              ds[SetMax({i \in 1..Len(ds) : DeclaredName(t, ds[i]) = name})]
        IN  [e \in 1..Len(first) |->
               [name |-> DeclaredName(t, ds[first[e]]),
                line |-> startRow(t, childForFieldName(t,
                            LastOfName(DeclaredName(t, ds[first[e]])), "name")) + 1]]
  IN  Entries(Declarators(t, node))

\* collectUsages: the texts of the identifiers whose parent is no declarator
usedVars(t, node) ==
  {t.kind[j].text : j \in {i \in Subtree(t, node) :
      /\ TypeOf(t, i) = "identifier"
      /\ ~(ParentOf(t, i) # 0 /\ TypeOf(t, ParentOf(t, i)) = "variable_declarator")}}

\* slip: the underscore prefix is not looked at
detectUnusedVariables_NoPrefixRule(t, node) ==
  LET Unused(declared, used) ==
        LET hit == SelectSeq(declared, LAMBDA e : e.name \notin used)
        IN  [i \in 1..Len(hit) |-> Issue("DEAD_CODE", "CODE_SMELL", "low", hit[i].line)]
  IN  Unused(declaredVars(t, node), usedVars(t, node))

\* CodeSmellDetector.detectUnusedVariables
detectUnusedVariables(t, node) ==
  LET Unused(declared, used) ==
        LET hit == SelectSeq(declared,
                     LAMBDA e : e.name \notin used /\ ~StartsWithUnderscore(e.name))
        IN  [i \in 1..Len(hit) |-> Issue("DEAD_CODE", "CODE_SMELL", "low", hit[i].line)]
  IN  Unused(declaredVars(t, node), usedVars(t, node))

\* getClassMethods: the named method_definition nodes below a class
getClassMethods(t, classNode) ==
  SelectSeq(Preorder(t, classNode),
            LAMBDA j : TypeOf(t, j) = "method_definition" /\ t.kind[j].text # "")

\* identifyMethodDomains: the first keyword of the table a method name contains,
\* for the method names of the sampled sources
MethodDomain(name) ==
  IF name = "sendEmail" THEN "Email"
  ELSE IF name = "chargeCard" THEN "Payment"
  ELSE "Other"

identifyMethodDomains(t, methods) ==
  {MethodDomain(t.kind[methods[i]].text) : i \in 1..Len(methods)}

\* ArchitectureDetector.detectGodClass
detectGodClass(t, node) ==
  LET classIssues(n) ==
        IF TypeOf(t, n) \in {"class_declaration", "class"}
        THEN LET methods == getClassMethods(t, n)
                 methodCount == Len(methods)
             IN  (IF methodCount > 10
                  THEN <<Issue("GOD_CLASS", "ARCHITECTURE",
                               IF methodCount > 20 THEN "critical" ELSE "high",
                               startRow(t, n) + 1)>>
                  ELSE <<>>)
                 \o (IF Cardinality(identifyMethodDomains(t, methods)) > 3
                        /\ methodCount > 5
                     THEN <<Issue("GOD_CLASS", "ARCHITECTURE", "high",
                                  startRow(t, n) + 1)>>
                     ELSE <<>>)
        ELSE <<>>
  IN  FlatMap(Preorder(t, node), classIssues)

\* countExternalPropertyAccess: member_expression nodes per object identifier
\* (the text attribute of a member_expression is its `object` identifier)
AccessCount(t, node, objectName) ==
  Cardinality({j \in Subtree(t, node) :
                  TypeOf(t, j) = "member_expression" /\ t.kind[j].text = objectName})

\* the object names in order of first access
RECURSIVE FirstAccesses(_, _, _)
FirstAccesses(t, nodes, seen) ==
  IF nodes = <<>> THEN <<>>
  ELSE LET j == Head(nodes)
           name == t.kind[j].text
       IN  IF TypeOf(t, j) = "member_expression" /\ name # "" /\ name \notin seen
           THEN <<name>> \o FirstAccesses(t, Tail(nodes), seen \cup {name})
           ELSE FirstAccesses(t, Tail(nodes), seen)

\* ArchitectureDetector.detectFeatureEnvy
detectFeatureEnvy(t, node) ==
  LET methodIssues(n) ==
        IF TypeOf(t, n) \in {"method_definition", "function_declaration"}
        THEN LET envy(objectName) ==
                   IF AccessCount(t, n, objectName) > 3
                      /\ objectName # "this" /\ objectName # "self"
                   THEN <<Issue("FEATURE_ENVY", "ARCHITECTURE", "medium",
                                startRow(t, n) + 1)>>
                   ELSE <<>>
             IN  FlatMap(FirstAccesses(t, Preorder(t, n), {}), envy)
        ELSE <<>>
  IN  FlatMap(Preorder(t, node), methodIssues)

countImports(t, node) ==
  Cardinality({j \in Subtree(t, node) :
                  TypeOf(t, j) \in {"import_statement", "import_declaration"}})

\* ArchitectureDetector.detectTightCoupling
detectTightCoupling(t, node) ==
  IF countImports(t, node) > 10
  THEN <<Issue("TIGHT_COUPLING", "ARCHITECTURE",
               IF countImports(t, node) > 15 THEN "high" ELSE "medium", 1)>>
  ELSE <<>>

countDestructuredProperties(t, paramsNode) ==
  Cardinality({c \in Subtree(t, paramsNode) :
      /\ c # paramsNode
      /\ TypeOf(t, ParentOf(t, c)) = "object_pattern"
      /\ TypeOf(t, c) \in {"shorthand_property_identifier", "pair",
                           "shorthand_property_identifier_pattern"}})

\* ArchitectureDetector.detectMissingAbstraction
detectMissingAbstraction(t, node) ==
  LET fnIssues(n) ==
        IF /\ TypeOf(t, n) \in {"method_definition", "function_declaration"}
           /\ childForFieldName(t, n, "parameters") # 0
           /\ countDestructuredProperties(t, childForFieldName(t, n, "parameters")) > 5
        THEN <<Issue("MISSING_ABSTRACTION", "ARCHITECTURE", "medium",
                     startRow(t, n) + 1)>>
        ELSE <<>>
  IN  FlatMap(Preorder(t, node), fnIssues)

\* ArchitectureDetector.detectArchitectureIssues
detectArchitectureIssues(t, node) ==
  detectGodClass(t, node) \o detectFeatureEnvy(t, node)
    \o detectTightCoupling(t, node) \o detectMissingAbstraction(t, node)

(* ------------------------------ FixGenerator ---------------------------- *)

AutomatedFixTypes == {"TYPE_COERCION", "CONSOLE_LOG", "DEAD_CODE"}

GuidanceFixTypes ==
  {"MAGIC_NUMBER", "STRING_CONCAT_IN_LOOP", "EMPTY_CATCH", "EVAL_USAGE",
   "INNERHTML_USAGE", "HARDCODED_SECRET", "DOM_IN_LOOP", "NESTED_LOOPS",
   "TOO_MANY_PARAMETERS", "HIGH_COMPLEXITY", "DEEP_NESTING"}

\* FixGenerator.generateFix: "automated", "guidance" or "none" (null)
generateFix(issue) ==
  IF issue.type \in AutomatedFixTypes THEN "automated"
  ELSE IF issue.type \in GuidanceFixTypes THEN "guidance"
  ELSE "none"

(* ------------------------------ parsers --------------------------------- *)

JsFunctionTypes ==
  {"function_declaration", "function", "arrow_function", "method_definition",
   "function_expression"}

JsBlockTypes ==
  {"if_statement", "for_statement", "while_statement", "do_statement",
   "switch_statement", "try_statement", "block"}

PyBlockTypes ==
  {"if_statement", "for_statement", "while_statement", "with_statement",
   "try_statement", "block"}

\* the closure `traverse` of calculateMaxNesting: returns maxDepth after the subtree
RECURSIVE NestTraverse(_, _, _, _, _), NestChildren(_, _, _, _, _, _)
NestTraverse(t, blockTypes, node, depth, maxDepth) ==
  LET currentDepth == IF TypeOf(t, node) \in blockTypes THEN depth + 1 ELSE depth
  IN  NestChildren(t, blockTypes, Children(t, node), 1, currentDepth,
                   Max2(maxDepth, currentDepth))

NestChildren(t, blockTypes, kids, i, depth, maxDepth) ==
  IF i > Len(kids) THEN maxDepth
  ELSE NestChildren(t, blockTypes, kids, i + 1, depth,
                    NestTraverse(t, blockTypes, kids[i], depth, maxDepth))

calculateMaxNesting(languageName, t, node) ==
  NestTraverse(t, IF IsPython(languageName) THEN PyBlockTypes ELSE JsBlockTypes,
               node, 0, 0)

\* child.text.split(':')[0].split('=')[0].trim(), for the parameter texts of
\* the sampled sources (a text without ':' and '=' is its own name)
paramName(text) ==
  CASE text = "self: Self" -> "self"
    [] text = "cls=None" -> "cls"
    [] text = "x: int = 1" -> "x"
    [] OTHER -> text

\* PythonParser.countPythonParameters
countPythonParameters(t, node) ==
  LET params == childForFieldName(t, node, "parameters")
  IN  IF params = 0 THEN 0
      ELSE Len(SelectSeq(Children(t, params),
             LAMBDA c : /\ TypeOf(t, c) \in {"identifier", "typed_parameter",
                                             "default_parameter", "typed_default_parameter"}
                        /\ paramName(t.kind[c].text) # "self"
                        /\ paramName(t.kind[c].text) # "cls"))

\* the language tag a parser hands to its calculators
CalcLanguage(languageName) ==
  IF languageName = "Python" THEN "python"
  ELSE IF languageName = "TypeScript" THEN "typescript" ELSE "javascript"

\* analyzeFunction of JavaScriptParser and PythonParser.  Of the detectors it
\* runs, the ones below are those that match a construct of the sampled
\* sources; the expression and call detectors find nothing in them.
analyzeFunction(languageName, t, node) ==
  LET startLine == startRow(t, node) + 1
      endLine == endRow(t, node) + 1
      Metrics(lineCount) ==
        [cyclomaticComplexity |-> CyclomaticCalculate(CalcLanguage(languageName), t, node),
         cognitiveComplexity |-> CognitiveCalculate(CalcLanguage(languageName), t, node),
         linesOfCode |-> lineCount.total,
         effectiveLinesOfCode |-> lineCount.effective,
         nestingDepth |-> calculateMaxNesting(languageName, t, node),
         functionLength |-> endLine - startLine + 1,
         parameterCount |-> IF IsPython(languageName) THEN countPythonParameters(t, node)
                            ELSE countParameters(t, node)]
      Info(metrics, issues) ==
        [name |-> getFunctionName(t, node),
         startLine |-> startLine,
         endLine |-> endLine,
         metrics |-> metrics,
         issues |-> [i \in 1..Len(issues) |->
                       [issues[i] EXCEPT !.fix = generateFix(issues[i])]]]
      Analyzed(metrics) ==
        Info(metrics,
             detectIssues(metrics, startLine)
               \o detectTodoComments(t, startRow(t, node), endRow(t, node))
               \o detectNestedLoops(t, node)
               \o detectArchitectureIssues(t, node))
  IN  Analyzed(Metrics(countLines(languageName, t, startRow(t, node), endRow(t, node))))

RECURSIVE Sum(_)
Sum(s) == IF s = <<>> THEN 0 ELSE Head(s) + Sum(Tail(s))

\* reduce((sum, x) => sum + f(x), 0)
SumOver(s, f(_)) == Sum([i \in 1..Len(s) |-> f(s[i])])

\* Math.round(10 * sum / count), the mean in tenths
RoundedMeanTenths(sum, count) == (20 * sum + count) \div (2 * count)

\* calculateOverallMetrics of both parsers
calculateOverallMetrics(functions, lineCount) ==
  IF Len(functions) = 0
  THEN [createEmptyMetrics EXCEPT !.linesOfCode = lineCount.total,
                                  !.effectiveLinesOfCode = lineCount.effective]
  ELSE [cyclomaticComplexity |->
          RoundedMeanTenths(SumOver(functions, LAMBDA fn : fn.metrics.cyclomaticComplexity),
                            Len(functions)),
        cognitiveComplexity |->
          RoundedMeanTenths(SumOver(functions, LAMBDA fn : fn.metrics.cognitiveComplexity),
                            Len(functions)),
        linesOfCode |-> lineCount.total,
        effectiveLinesOfCode |-> lineCount.effective,
        nestingDepth |-> SetMax({functions[i].metrics.nestingDepth : i \in 1..Len(functions)}),
        functionLength |-> 0,
        parameterCount |-> 0]

\* PythonParser.calculateClassMetrics
calculateClassMetrics(methods) ==
  IF Len(methods) = 0 THEN createEmptyMetrics
  ELSE [cyclomaticComplexity |->
          RoundedMeanTenths(SumOver(methods, LAMBDA m : m.metrics.cyclomaticComplexity),
                            Len(methods)),
        cognitiveComplexity |->
          RoundedMeanTenths(SumOver(methods, LAMBDA m : m.metrics.cognitiveComplexity),
                            Len(methods)),
        linesOfCode |-> SumOver(methods, LAMBDA m : m.metrics.linesOfCode),
        effectiveLinesOfCode |-> SumOver(methods, LAMBDA m : m.metrics.effectiveLinesOfCode),
        nestingDepth |-> SetMax({methods[i].metrics.nestingDepth : i \in 1..Len(methods)}),
        functionLength |-> Len(methods),
        parameterCount |-> 0]

getClassName(t, node) ==
  IF t.kind[node].text # "" THEN t.kind[node].text ELSE "AnonymousClass"

\* PythonParser.analyzeClass
analyzeClass(languageName, t, node) ==
  LET classBody == childForFieldName(t, node, "body")
      MethodNodes(body) ==
        IF body = 0 THEN <<>>
        ELSE SelectSeq(Children(t, body), LAMBDA c : TypeOf(t, c) = "function_definition")
      Methods(methodNodes) ==
        [i \in 1..Len(methodNodes) |-> analyzeFunction(languageName, t, methodNodes[i])]
      Info(methods) ==
        [name |-> getClassName(t, node),
         startLine |-> startRow(t, node) + 1,
         endLine |-> endRow(t, node) + 1,
         methods |-> methods,
         metrics |-> calculateClassMetrics(methods)]
  IN  Info(Methods(MethodNodes(classBody)))

\* PythonParser.analyzeClasses
analyzeClasses(languageName, t, root) ==
  LET Classes(classNodes) ==
        [i \in 1..Len(classNodes) |-> analyzeClass(languageName, t, classNodes[i])]
  IN  Classes(SelectSeq(Preorder(t, root), LAMBDA j : TypeOf(t, j) = "class_definition"))

\* analyzeFunctions of both parsers
analyzeFunctions(languageName, t, root) ==
  LET Functions(functionNodes) ==
        [i \in 1..Len(functionNodes) |-> analyzeFunction(languageName, t, functionNodes[i])]
  IN  Functions(IF IsPython(languageName)
                THEN SelectSeq(extractFunctions(t, root, {"function_definition"}),
                               LAMBDA j : \A a \in SeqToSet(Ancestors(t, j)) :
                                             TypeOf(t, a) # "class_definition")
                ELSE extractFunctions(t, root, JsFunctionTypes))

IssueCount(fn) == Len(fn.issues)

MethodIssueCount(cls) == SumOver(cls.methods, IssueCount)

\* slip: the issues of class methods are left out of the total
TotalIssues_FunctionsOnly(functions, classes) == SumOver(functions, IssueCount)

\* the totalIssues expression of parse
TotalIssues(functions, classes) ==
  SumOver(functions, IssueCount) + SumOver(classes, MethodIssueCount)

\* JavaScriptParser.parse
ParseJavaScript(languageName, t, filePath, date) ==
  LET Result(overallMetrics, functions) ==
        [filePath |-> filePath,
         language |-> languageName,
         overallMetrics |-> overallMetrics,
         functions |-> functions,
         classes |-> <<>>,
         totalIssues |-> TotalIssues(functions, <<>>),
         analysisDate |-> date]
      Attached(lineCount, functions, fileIssues) ==
        Result(calculateOverallMetrics(functions, lineCount),
               IF Len(fileIssues) > 0 /\ Len(functions) > 0
               THEN [functions EXCEPT ![1].issues = functions[1].issues \o fileIssues]
               ELSE functions)
  IN  Attached(countLines(languageName, t, 0, t.n - 1),
               analyzeFunctions(languageName, t, 1),
               detectArchitectureIssues(t, 1))

\* PythonParser.parse
ParsePython(languageName, t, filePath, date) ==
  LET Result(overallMetrics, functions, classes) ==
        [filePath |-> filePath,
         language |-> languageName,
         overallMetrics |-> overallMetrics,
         functions |-> functions,
         classes |-> classes,
         totalIssues |-> TotalIssues(functions, classes),
         analysisDate |-> date]
      Attached(lineCount, functions, classes, fileIssues) ==
        Result(calculateOverallMetrics(functions, lineCount),
               IF Len(fileIssues) > 0 /\ Len(functions) > 0
               THEN [functions EXCEPT ![1].issues = functions[1].issues \o fileIssues]
               ELSE functions,
               IF /\ Len(fileIssues) > 0 /\ Len(functions) = 0
                  /\ Len(classes) > 0 /\ Len(classes[1].methods) > 0
               THEN [classes EXCEPT ![1].methods[1].issues =
                        classes[1].methods[1].issues \o fileIssues]
               ELSE classes)
  IN  Attached(countLines(languageName, t, 0, t.n - 1),
               analyzeFunctions(languageName, t, 1),
               analyzeClasses(languageName, t, 1),
               detectArchitectureIssues(t, 1))

\* slip: the total is a counter carried from call to call, not a recomputed sum
parse_CarriedTotal(languageName, t, filePath, date) ==
  LET Carried(fresh) == [fresh EXCEPT !.totalIssues = fresh.totalIssues + date]
  IN  Carried(IF IsPython(languageName) THEN ParsePython(languageName, t, filePath, date)
              ELSE ParseJavaScript(languageName, t, filePath, date))

parse(languageName, t, filePath, date) ==
  IF IsPython(languageName) THEN ParsePython(languageName, t, filePath, date)
  ELSE ParseJavaScript(languageName, t, filePath, date)

(* ------------------------------ inputs ---------------------------------- *)

JsFunctionRoots == {K("function_declaration", "f", ""), K("arrow_function", "", "")}

PyFunctionRoots == {K("function_definition", "f", "")}

JsCycKinds ==
  {K("if_statement", "", ""), K("else_clause", "", "alternative"),
   K("for_statement", "", ""), K("switch_case", "", ""),
   K("binary_expression", ">", ""), K("binary_expression", "&&", ""),
   K("statement_block", "", "body")}

PyCycKinds ==
  {K("if_statement", "", ""), K("elif_clause", "", "alternative"),
   K("boolean_operator", "and", ""), K("except_clause", "", ""),
   K("comparison_operator", "", ""), K("block", "", "body")}

TestFixtures == {SimpleFixture, WithIfFixture, WithIfElseFixture, WithIfElseBareFixture}

CycRoots(language) == IF language = "python" THEN PyFunctionRoots ELSE JsFunctionRoots

CycKinds(language) == IF language = "python" THEN PyCycKinds ELSE JsCycKinds

JsCogKinds ==
  {K("if_statement", "", ""), K("else_clause", "", "alternative"),
   K("binary_expression", "&&", ""), K("call_expression", "f", ""),
   K("statement_block", "", "body")}

TsCogKinds ==
  {K("for_statement", "", ""), K("ternary_expression", "", ""),
   K("binary_expression", "??", ""), K("call_expression", "g", ""),
   K("statement_block", "", "body")}

PyCogKinds ==
  {K("if_statement", "", ""), K("with_statement", "", ""),
   K("boolean_operator", "and", ""), K("call", "f", ""),
   K("block", "", "body")}

CogRoots(language) == IF language = "python" THEN PyFunctionRoots ELSE JsFunctionRoots

CogKinds(language) ==
  IF language = "python" THEN PyCogKinds
  ELSE IF language = "typescript" THEN TsCogKinds ELSE JsCogKinds

JsFileKinds ==
  {K("function_declaration", "compute", ""), K("arrow_function", "", ""),
   K("statement_block", "", "body"), K("for_statement", "", ""),
   K("comment", "TODO", "")}

PyFileKinds ==
  {K("function_definition", "compute", ""), K("class_definition", "Widget", ""),
   K("block", "", "body"), K("for_statement", "", ""),
   K("comment", "FIXME", "")}

LanguageNames == {"JavaScript", "TypeScript", "Python"}

FileRoots(languageName) ==
  IF IsPython(languageName) THEN {K("module", "", "")} ELSE {K("program", "", "")}

FileKinds(languageName) == IF IsPython(languageName) THEN PyFileKinds ELSE JsFileKinds

\* the numbers of import statements at the head of a sampled source file
ImportCounts == {0, 11}

\* the file t with k import statements put before its other top-level nodes
WithImports(k, t) ==
  [n |-> t.n + k,
   parent |-> <<0>> \o [i \in 1..k |-> 1]
                \o [i \in 1..(t.n - 1) |->
                      IF t.parent[i + 1] = 1 THEN 1 ELSE t.parent[i + 1] + k],
   kind |-> <<t.kind[1]>> \o [i \in 1..k |-> K("import_statement", "", "")]
              \o [i \in 1..(t.n - 1) |-> t.kind[i + 1]]]

FilePathOf(languageName) ==
  IF IsPython(languageName) THEN "widget.py"
  ELSE IF languageName = "TypeScript" THEN "widget.ts" ELSE "widget.js"

\* the loop statements of the grammars, a block and a non-loop statement
LoopKinds ==
  {K("for_statement", "", ""), K("while_statement", "", ""),
   K("do_statement", "", ""), K("statement_block", "", "body")}

\* the statements of the sampled function bodies: `let name;`,
\* `let name = value;` and the expression statement `value;`
VarNames == {"a", "_unused"}

Statements ==
  [name : VarNames, value : VarNames \cup {""}] \cup [name : {""}, value : VarNames]

\* the nodes of one statement in pre-order, each with the distance to its
\* parent (0: the parent is the function)
StatementNodes(s) ==
  IF s.name = ""
  THEN <<[kind |-> K("identifier", s.value, ""), up |-> 0]>>
  ELSE <<[kind |-> K("variable_declarator", "", ""), up |-> 0],
         [kind |-> K("identifier", s.name, "name"), up |-> 1]>>
         \o (IF s.value = "" THEN <<>>
             ELSE <<[kind |-> K("identifier", s.value, "value"), up |-> 2]>>)

\* the tree of function f() { statements }
FunctionOf(statements) ==
  LET Tree(nodes) ==
        [n |-> Len(nodes) + 1,
         parent |-> <<0>> \o [i \in 1..Len(nodes) |->
                               IF nodes[i].up = 0 THEN 1 ELSE i + 1 - nodes[i].up],
         kind |-> <<K("function_declaration", "f", "")>>
                    \o [i \in 1..Len(nodes) |-> nodes[i].kind]]
  IN  Tree(Concat([i \in 1..Len(statements) |-> StatementNodes(statements[i])]))

\* the methods of the sampled classes, in source order
MethodNames == <<"add", "subtract">>

\* a top-level item of a file: a function, or a class with its first 0..2 methods
Items == [class : BOOLEAN, methods : 0..Len(MethodNames)] \ [class : {FALSE}, methods : 1..Len(MethodNames)]

\* the nodes of one item in pre-order, each with the distance to its parent
\* (0: the parent is the root)
ItemNodes(languageName, item) ==
  IF ~item.class
  THEN <<[kind |-> K(IF IsPython(languageName) THEN "function_definition"
                     ELSE "function_declaration", "compute", ""), up |-> 0]>>
  ELSE <<[kind |-> K(IF IsPython(languageName) THEN "class_definition"
                     ELSE "class_declaration", "Calculator", ""), up |-> 0],
         [kind |-> K(IF IsPython(languageName) THEN "block" ELSE "class_body", "", "body"),
          up |-> 1]>>
         \o [k \in 1..item.methods |->
               [kind |-> K(IF IsPython(languageName) THEN "function_definition"
                           ELSE "method_definition", MethodNames[k], ""), up |-> k]]

\* the tree of a source file made of the items
FileOf(languageName, items) ==
  LET Tree(nodes) ==
        [n |-> Len(nodes) + 1,
         parent |-> <<0>> \o [i \in 1..Len(nodes) |->
                               IF nodes[i].up = 0 THEN 1 ELSE i + 1 - nodes[i].up],
         kind |-> <<IF IsPython(languageName) THEN K("module", "", "")
                    ELSE K("program", "", "")>>
                    \o [i \in 1..Len(nodes) |-> nodes[i].kind]]
  IN  Tree(Concat([i \in 1..Len(items) |-> ItemNodes(languageName, items[i])]))

\* the functions called in the sampled function bodies
CalleeNames == {"setInterval", "clearInterval", "setTimeout", "clearTimeout", "fetch"}

\* the tree of function f() { callees[1](...); callees[2](...); ... }
CallsOf(callees) ==
  [n |-> 2 * Len(callees) + 1,
   parent |-> <<0>> \o [i \in 1..(2 * Len(callees)) |-> IF i % 2 = 1 THEN 1 ELSE i],
   kind |-> <<K("function_declaration", "f", "")>>
              \o [i \in 1..(2 * Len(callees)) |->
                    IF i % 2 = 1 THEN K("call_expression", "", "")
                    ELSE K("identifier", callees[i \div 2], "function")]]

\* the operands and operators of the sampled comparisons
Operands == {K("identifier", "a", ""), K("null", "null", ""), K("undefined", "undefined", "")}

ComparisonOperators == {"==", "!=", "==="}

\* the nodes in pre-order of ((first op[1] right[1]) op[2] right[2]) ..., each
\* with the distance to its parent (0: the parent is outside)
RECURSIVE ComparisonNodes(_, _, _, _)
ComparisonNodes(first, steps, k, field) ==
  IF k = 0 THEN <<[kind |-> [first EXCEPT !.field = field], up |-> 0]>>
  ELSE LET Nested(left) ==
             <<[kind |-> K("binary_expression", "", field), up |-> 0]>>
             \o [i \in 1..Len(left) |->
                   IF left[i].up = 0 THEN [left[i] EXCEPT !.up = i] ELSE left[i]]
             \o <<[kind |-> K(steps[k].operator, steps[k].operator, "operator"),
                   up |-> Len(left) + 1],
                  [kind |-> [steps[k].right EXCEPT !.field = "right"],
                   up |-> Len(left) + 2]>>
       IN  Nested(ComparisonNodes(first, steps, k - 1, "left"))

\* the tree of function f() { return <the comparison>; }
ComparisonOf(first, steps) ==
  LET Tree(nodes) ==
        [n |-> Len(nodes) + 1,
         parent |-> <<0>> \o [i \in 1..Len(nodes) |->
                               IF nodes[i].up = 0 THEN 1 ELSE i + 1 - nodes[i].up],
         kind |-> <<K("function_declaration", "f", "")>>
                    \o [i \in 1..Len(nodes) |-> nodes[i].kind]]
  IN  Tree(ComparisonNodes(first, steps, Len(steps), ""))

\* the analyses handed to saveAnalysis: one file, with no issue or with one
SavedAnalyses ==
  {<<[filePath |-> "a.js", totalIssues |-> i, functions |-> <<"compute">>,
      overallMetrics |-> [cyclomaticComplexity |-> 1]]>> : i \in {0, 1}}

\* the limits of getRecentAnalyses and pruneHistory: small ones and the defaults
Limits == {1, 5, 10, 50}

\* generateId makes an id no stored record has; the model numbers the saves
NextId(stored) ==
  IF stored = <<>> THEN 1 ELSE 1 + SetMax({stored[i].id : i \in DOMAIN stored})

\* the children of a Python parameter list: plain, typed and default
\* parameters, *args and **kwargs, and the commas between them
ParameterKinds ==
  {K("identifier", "self", ""), K("identifier", "x", ""),
   K("typed_parameter", "self: Self", ""), K("default_parameter", "cls=None", ""),
   K("typed_default_parameter", "x: int = 1", ""),
   K("list_splat_pattern", "*args", ""),
   K("dictionary_splat_pattern", "**kwargs", ""), K(",", ",", "")}

\* the tree of def f(params): pass
PythonFunctionOf(params) ==
  [n |-> Len(params) + 3,
   parent |-> <<0, 1>> \o [i \in 1..Len(params) |-> 2] \o <<1>>,
   kind |-> <<K("function_definition", "f", ""), K("parameters", "", "parameters")>>
              \o params \o <<K("block", "", "body")>>]

\* the literals 8, 42, 100 and 302, and around them an index expression, a
\* timer call, a division and a `status` property
NumberKinds ==
  {K("number", "8", ""), K("number", "42", ""), K("number", "100", ""),
   K("number", "302", ""), K("subscript_expression", "", ""),
   K("call_expression", "setTimeout", ""), K("binary_expression", "/", ""),
   K("pair", "status", "")}

NumberRoots == {K("function_declaration", "f", "")}

LoopRoots == {K("function_declaration", "f", ""), K("for_in_statement", "", "")}

NoTree == [n |-> 0, parent |-> <<>>, kind |-> <<>>]

NoRun == [at |-> <<>>, added |-> <<>>]

NoAnalysis == [filePath |-> "", language |-> "", analysisDate |-> 0]

(* ------------------------------ actions --------------------------------- *)

\* types.ts: the members of enum IssueType
IssueTypes ==
  {"HIGH_COMPLEXITY", "DEEP_NESTING", "LONG_FUNCTION", "TOO_MANY_PARAMETERS",
   "MAGIC_NUMBER", "POOR_NAMING", "DUPLICATED_CODE", "DEAD_CODE", "CONSOLE_LOG",
   "EMPTY_CATCH", "TODO_COMMENT", "COMMENTED_CODE", "TYPE_COERCION",
   "NESTED_LOOPS", "DOM_IN_LOOP", "STRING_CONCAT_IN_LOOP", "REGEX_IN_LOOP",
   "INEFFICIENT_ARRAY_OPS", "EVAL_USAGE", "INNERHTML_USAGE", "HARDCODED_SECRET",
   "SQL_INJECTION_RISK", "POTENTIAL_BUG", "MISSING_ERROR_HANDLING",
   "EVENT_LISTENER_LEAK", "INTERVAL_LEAK", "TIMEOUT_LEAK", "CLOSURE_LEAK",
   "GLOBAL_LEAK", "GOD_CLASS", "FEATURE_ENVY", "TIGHT_COUPLING",
   "MISSING_ABSTRACTION", "INCONSISTENT_NAMING"}

\* a type value that is not a member of the enum
UnknownIssueType == "NOT_AN_ISSUE_TYPE"

Severities == {"low", "medium", "high", "critical"}

\* the detector invocations of analyzeFunction, in the order of the calls
Detectors ==
  <<"detectSmells", "detectPerformanceIssues", "detectSecurityIssues",
    "detectLeaks", "detectArchitectureIssues">>

\* the function nodes parse hands to analyzeFunction, in the order of the
\* calls: analyzeFunctions, then (Python) the methods met by analyzeClasses
AnalysedNodes(languageName, t) ==
  IF IsPython(languageName)
  THEN SelectSeq(extractFunctions(t, 1, {"function_definition"}),
                 LAMBDA j : \A a \in SeqToSet(Ancestors(t, j)) :
                               TypeOf(t, a) # "class_definition")
       \o SelectSeq(Preorder(t, 1),
                    LAMBDA j : /\ TypeOf(t, j) = "function_definition"
                               /\ ParentOf(t, j) # 0
                               /\ t.kind[ParentOf(t, j)].field = "body"
                               /\ ParentOf(t, ParentOf(t, j)) # 0
                               /\ TypeOf(t, ParentOf(t, ParentOf(t, j))) = "class_definition")
  ELSE extractFunctions(t, 1, JsFunctionTypes)

\* the invocations <<function, detector>> of one parse, in order
Invocations(count) ==
  [k \in 1..(count * Len(Detectors)) |->
     <<((k - 1) \div Len(Detectors)) + 1, ((k - 1) % Len(Detectors)) + 1>>]

\* the invocations that run when the invocation `at` raises (<<0, 0>>: none
\* does): neither analyzeFunction nor parse has a try, so the error leaves
\* parse at the raising call
runDetectors(count, at) ==
  IF at \in SeqToSet(Invocations(count))
  THEN [at |-> at, threw |-> TRUE,
        ran |-> SelectSeq(Invocations(count),
                          LAMBDA v : v[1] < at[1] \/ (v[1] = at[1] /\ v[2] <= at[2]))]
  ELSE [at |-> <<0, 0>>, threw |-> FALSE, ran |-> Invocations(count)]

(* ------------------------------ HistoryDatabase ------------------------ *)

\* calculateAvgComplexity, in tenths: Math.round((total / length) * 10)
calculateAvgComplexity(analyses) ==
  IF Len(analyses) > 0
  THEN LET cyclomatic(a) == a.overallMetrics.cyclomaticComplexity
       IN  RoundedMeanTenths(SumOver(analyses, cyclomatic), Len(analyses))
  ELSE 0

\* the record saveAnalysis builds; avgComplexity is kept in tenths
AnalysisRecord(analysisId, timestamp, analyses) ==
  LET issuesOf(a) == a.totalIssues
      functionsOf(a) == Len(a.functions)
  IN  [id |-> analysisId,
       timestamp |-> timestamp,
       files |-> Len(analyses),
       totalIssues |-> SumOver(analyses, issuesOf),
       totalFunctions |-> SumOver(analyses, functionsOf),
       avgComplexity |-> calculateAvgComplexity(analyses),
       analyses |-> analyses]

\* this.data.analyses.push(record)
saveAnalysis(stored, analysisId, timestamp, analyses) ==
  Append(stored, AnalysisRecord(analysisId, timestamp, analyses))

\* the records of s with timestamp v, v - 1, ..., 0, each group in the order of s
RECURSIVE NewestFrom(_, _)
NewestFrom(s, v) ==
  IF v < 0 THEN <<>>
  ELSE SelectSeq(s, LAMBDA r : r.timestamp = v) \o NewestFrom(s, v - 1)

\* Array.prototype.sort with (a, b) => time(b) - time(a): newest first, stable;
\* it sorts the array in place and returns that array
sortNewestFirst(s) ==
  IF s = <<>> THEN <<>>
  ELSE NewestFrom(s, SetMax({s[i].timestamp : i \in DOMAIN s}))

\* slice(begin, end) with 0-based indices that are already clamped
slice(s, begin, end) == SubSeq(s, begin + 1, end)

Min2(a, b) == IF a <= b THEN a ELSE b

\* getRecentAnalyses: this.data.analyses.sort(...).slice(0, limit)
getRecentAnalyses(stored, limit) ==
  [stored |-> sortNewestFirst(stored),
   result |-> slice(sortNewestFirst(stored), 0, Min2(limit, Len(stored)))]

\* pruneHistory: this.data.analyses = this.data.analyses.sort(...).slice(0, keepLast)
pruneHistory(stored, keepLast) ==
  LET Kept(kept) == [stored |-> kept, result |-> Len(stored) - Len(kept)]
  IN  Kept(slice(sortNewestFirst(stored), 0, Min2(keepLast, Len(stored))))

\* calculateTrend over the array as it is stored; the means are compared
\* exactly: recentAvg - previousAvg < -0.1, > 0.1
calculateTrend(stored) ==
  IF Len(stored) < 6 THEN "stable"
  ELSE LET issuesOf(a) == a.totalIssues
           Trend(recent, previous) ==
             LET diffTimes(scale) ==
                   scale * (SumOver(recent, issuesOf) * Len(previous)
                            - SumOver(previous, issuesOf) * Len(recent))
                 tenth == Len(recent) * Len(previous)
             IN  IF diffTimes(10) < 0 - tenth THEN "improving"
                 ELSE IF diffTimes(10) > tenth THEN "degrading"
                 ELSE "stable"
       IN  Trend(slice(stored, Len(stored) - 5, Len(stored)),
                 slice(stored, Max2(Len(stored) - 10, 0), Len(stored) - 5))

\* getStatistics; the two means are kept in tenths
getStatistics(stored) ==
  IF Len(stored) = 0
  THEN [totalAnalyses |-> 0, totalFiles |-> 0, avgIssuesPerFile |-> 0,
        avgComplexity |-> 0, trend |-> "stable"]
  ELSE LET filesOf(a) == a.files
           issuesOf(a) == a.totalIssues
           complexityOf(a) == a.avgComplexity
       IN  [totalAnalyses |-> Len(stored),
            totalFiles |-> SumOver(stored, filesOf),
            avgIssuesPerFile |->
              RoundedMeanTenths(SumOver(stored, issuesOf), SumOver(stored, filesOf)),
            avgComplexity |->
              (2 * SumOver(stored, complexityOf) + Len(stored)) \div (2 * Len(stored)),
            trend |-> calculateTrend(stored)]

(* ------------------------------ FileAnalyzer ---------------------------- *)

\* the paths of the sampled calls
FilePaths == {"exists.js", "missing.js", "test.java", "missing.java", "locked.py"}

\* the file system: the two missing files do not exist, locked.py exists
\* and cannot be read
existsSync(filePath) == filePath \notin {"missing.js", "missing.java"}

extname(filePath) ==
  CASE filePath \in {"exists.js", "missing.js"} -> ".js"
    [] filePath \in {"test.java", "missing.java"} -> ".java"
    [] filePath = "locked.py" -> ".py"
    [] OTHER -> ""

\* this.parsers.get(ext): the language of the registered parser, "" for none
parserFor(ext) ==
  CASE ext \in {".js", ".jsx"} -> "JavaScript"
    [] ext \in {".ts", ".tsx"} -> "TypeScript"
    [] ext = ".py" -> "Python"
    [] OTHER -> ""

\* fs.readFileSync(filePath, 'utf-8'): the tree of the content, or the error
readFileSync(filePath) ==
  IF filePath = "locked.py"
  THEN [threw |-> TRUE, message |-> "EACCES: permission denied", tree |-> NoTree]
  ELSE [threw |-> FALSE, message |-> "",
        tree |-> FileOf(parserFor(extname(filePath)), <<[class |-> FALSE, methods |-> 0]>>)]

Thrown(message) == [threw |-> TRUE, message |-> message, analysis |-> NoAnalysis]

\* FileAnalyzer.analyzeFile: the analysis, or the error it throws
analyzeFile(filePath, date) ==
  IF ~existsSync(filePath) THEN Thrown("File not found")
  ELSE IF parserFor(extname(filePath)) = ""
  THEN Thrown("No parser available for file extension")
  ELSE LET Parsed(code) ==
             IF code.threw THEN Thrown(code.message)
             ELSE [threw |-> FALSE, message |-> "",
                   analysis |-> parse(parserFor(extname(filePath)), code.tree,
                                      filePath, date)]
       IN  Parsed(readFileSync(filePath))

\* the classification of the catch block of analyzeFilesWithErrors
errorTypeOf(filePath, errorMessage) ==
  IF ~existsSync(filePath) THEN "FILE_NOT_FOUND"
  ELSE IF errorMessage = "No parser available for file extension"
  THEN "UNSUPPORTED_EXTENSION"
  ELSE IF errorMessage = "EACCES: permission denied" THEN "READ_ERROR"
  ELSE "PARSE_ERROR"

\* slip: the loop has no catch, the first error leaves the call
RECURSIVE AnalyzeFrom_NoCatch(_, _, _, _)
AnalyzeFrom_NoCatch(filePaths, i, date, acc) ==
  IF i > Len(filePaths) THEN acc
  ELSE LET Step(r) ==
             IF r.threw THEN [acc EXCEPT !.threw = TRUE]
             ELSE AnalyzeFrom_NoCatch(filePaths, i + 1, date,
                    [acc EXCEPT !.successful = Append(@, r.analysis)])
       IN  Step(analyzeFile(filePaths[i], date))

analyzeFilesWithErrors_NoCatch(filePaths, date) ==
  AnalyzeFrom_NoCatch(filePaths, 1, date,
                      [successful |-> <<>>, failed |-> <<>>, threw |-> FALSE])

\* the loop of analyzeFilesWithErrors from the i-th path on
RECURSIVE AnalyzeFrom(_, _, _, _)
AnalyzeFrom(filePaths, i, date, acc) ==
  IF i > Len(filePaths) THEN acc
  ELSE LET Step(r) ==
             AnalyzeFrom(filePaths, i + 1, date,
               IF r.threw
               THEN [acc EXCEPT !.failed =
                       Append(@, [filePath |-> filePaths[i],
                                  error |-> r.message,
                                  errorType |-> errorTypeOf(filePaths[i], r.message)])]
               ELSE [acc EXCEPT !.successful = Append(@, r.analysis)])
       IN  Step(analyzeFile(filePaths[i], date))

\* FileAnalyzer.analyzeFilesWithErrors; threw tells whether an error left the call
analyzeFilesWithErrors(filePaths, date) ==
  AnalyzeFrom(filePaths, 1, date,
              [successful |-> <<>>, failed |-> <<>>, threw |-> FALSE])

\* types.ts DEFAULT_CONFIG
DEFAULT_CONFIG ==
  [cyclomaticThreshold |-> cyclomaticThreshold,
   cognitiveThreshold |-> cognitiveThreshold,
   maxNestingDepth |-> maxNestingDepth,
   maxFunctionLength |-> maxFunctionLength,
   maxParameters |-> maxParameters,
   trackHistory |-> FALSE]

(* ------------------------------ ConfigLoader ---------------------------- *)

CONFIG_FILES == <<".complexityrc.json", ".complexityrc", "complexity.config.json">>

NoPath == [dir |-> 0, file |-> ""]

\* ConfigLoader.findConfigFile; dirs[i] holds the names of the files of the
\* i-th directory on the way from the start path to the root
findConfigFile(dirs) ==
  LET Found(levels) ==
        IF levels = {} THEN NoPath
        ELSE LET First(i) ==
                   [dir |-> i,
                    file |-> CONFIG_FILES[CHOOSE j \in DOMAIN CONFIG_FILES :
                                /\ CONFIG_FILES[j] \in dirs[i]
                                /\ \A h \in 1..(j - 1) : CONFIG_FILES[h] \notin dirs[i]]]
             IN  First(CHOOSE i \in levels : \A h \in levels : i <= h)
  IN  Found({i \in DOMAIN dirs : dirs[i] \cap SeqToSet(CONFIG_FILES) # {}})

\* { ...defaultConfig, ...userConfig }
Spread(defaultConfig, userConfig) ==
  [k \in DOMAIN defaultConfig \cup DOMAIN userConfig |->
     IF k \in DOMAIN userConfig THEN userConfig[k] ELSE defaultConfig[k]]

NoUserConfig == [k \in {} |-> 0]

\* a new object with the keys and values given
Fresh(value) == [value |-> value, returned |-> value, shared |-> FALSE, threw |-> FALSE]

\* slip: without a config file the DEFAULT_CONFIG object itself is returned
loadConfig_Shared(defaultConfig, dirs, content, userConfig) ==
  IF findConfigFile(dirs) = NoPath
  THEN [value |-> defaultConfig, returned |-> defaultConfig, shared |-> TRUE,
        threw |-> FALSE]
  ELSE IF content # "valid" THEN Fresh(Spread(defaultConfig, NoUserConfig))
  ELSE Fresh(Spread(defaultConfig, userConfig))

\* ConfigLoader.loadConfig; content tells whether readFileSync throws
\* ("unreadable"), JSON.parse throws ("invalid") or userConfig is parsed
loadConfig(defaultConfig, dirs, content, userConfig) ==
  IF findConfigFile(dirs) = NoPath THEN Fresh(Spread(defaultConfig, NoUserConfig))
  ELSE IF content # "valid" THEN Fresh(Spread(defaultConfig, NoUserConfig))
  ELSE Fresh(Spread(defaultConfig, userConfig))

\* the keys and values of the sampled configuration files
UserKeys == {"cyclomaticThreshold", "cognitiveThreshold", "maxParameters"}

UserValues == {1, 15}

UserConfigs == UNION {[S -> UserValues] : S \in SUBSET UserKeys}

Contents == {"unreadable", "invalid", "valid"}

\* the configuration files a directory can hold
ConfigDirs == {{}, {".complexityrc.json"}, {".complexityrc", "complexity.config.json"}}

\* the values of the CLI option --threshold ("" when it is not given)
ThresholdOptions == {"", "1", "15"}

\* parseInt(options.threshold, 10), for the sampled options
parseInt(text) == IF text = "1" THEN 1 ELSE IF text = "15" THEN 15 ELSE 0

\* analyzeCommand: the configuration after the override from the CLI
overrideThreshold(value, threshold) ==
  IF threshold # ""
  THEN [k \in DOMAIN value |->
          IF k = "cyclomaticThreshold" THEN parseInt(threshold) ELSE value[k]]
  ELSE value

\* a function and an if statement in the files of an analyze run
CommandKinds(languageName) ==
  {K(IF IsPython(languageName) THEN "function_definition" ELSE "function_declaration",
     "compute", ""),
   K("if_statement", "", "")}

\* no detector invocation raises, none has run
NoFault == [at |-> <<0, 0>>, threw |-> FALSE, ran |-> <<>>]

\* nothing loaded, nothing on disk, nothing analysed
NoConfig == Fresh(DEFAULT_CONFIG)

NoEnv == [dirs |-> <<>>, content |-> "none", userConfig |-> NoUserConfig, threshold |-> ""]

NoBatch == [paths |-> <<>>, successful |-> <<>>, failed |-> <<>>, threw |-> FALSE]

Init ==
  /\ pc = "idle"
  /\ op = "none"
  /\ lang = "javascript"
  /\ tree = NoTree
  /\ complexity = 0
  /\ run = NoRun
  /\ analysis = NoAnalysis
  /\ prev = NoAnalysis
  /\ now = 0
  /\ reported = <<>>
  /\ defaults = DEFAULT_CONFIG
  /\ config = NoConfig
  /\ env = NoEnv
  /\ batch = NoBatch
  /\ fault = NoFault
  /\ history = <<>>

\* cyclomaticCalc.calculate(functionNode)
CyclomaticOf(language, t) ==
  /\ lang' = language
  /\ tree' = t
  /\ complexity' = CyclomaticCalculate(language, t, 1)

CalcCyclomatic ==
  /\ pc = "idle"
  /\ \E language \in Languages :
       LET P(t) == CyclomaticOf(language, t)
       IN  \/ SomeTree(MaxCycNodes, CycRoots(language), CycKinds(language), P)
           \/ /\ language # "python"
              /\ \E t \in TestFixtures : P(t)
  /\ pc' = "done"
  /\ op' = "cyclomatic"
  /\ UNCHANGED <<run, analysis, prev, now, reported,
               defaults, config, env, batch,
                 fault, history>>

\* cognitiveCalc.calculate(functionNode)
CognitiveOf(language, t) ==
  LET r == CognitiveRun(language, t, 1)
  IN  /\ lang' = language
      /\ tree' = t
      /\ complexity' = r.complexity
      /\ run' = [at |-> r.at, added |-> r.added]

CalcCognitive ==
  /\ pc = "idle"
  /\ \E language \in Languages :
       LET P(t) == CognitiveOf(language, t)
       IN  SomeTree(MaxCogNodes, CogRoots(language), CogKinds(language), P)
  /\ pc' = "done"
  /\ op' = "cognitive"
  /\ UNCHANGED <<analysis, prev, now, reported,
               defaults, config, env, batch,
                 fault, history>>

\* parser.parse(code, filePath), the analysis stamped with the clock
ParseOf(languageName, t) ==
  /\ lang' = languageName
  /\ tree' = t
  /\ analysis' = parse(languageName, t, FilePathOf(languageName), now)

ParseUpTo(extra) ==
  /\ pc = "idle"
  /\ \E languageName \in LanguageNames :
       \E k \in ImportCounts :
          LET P(t) == ParseOf(languageName, WithImports(k, t))
          IN  SomeTree(extra, FileRoots(languageName), FileKinds(languageName), P)
  /\ pc' = "done"
  /\ op' = "parse"
  /\ UNCHANGED <<complexity, run, prev, now, reported,
               defaults, config, env, batch,
                 fault, history>>

Parse == ParseUpTo(MaxFileNodes)

ParseBrief == ParseUpTo(MaxReparseNodes)

\* parser.parse(code, filePath) on a file of functions and classes
ParseClasses ==
  /\ pc = "idle"
  /\ \E languageName \in LanguageNames :
       \E len \in 0..MaxItems :
          \E items \in [1..len -> Items] :
             ParseOf(languageName, FileOf(languageName, items))
  /\ pc' = "done"
  /\ op' = "parseClasses"
  /\ UNCHANGED <<complexity, run, prev, now, reported,
               defaults, config, env, batch,
                 fault, history>>

\* analyzer.analyzeFilesWithErrors(filePaths)
AnalyzeFilesWithErrors ==
  /\ pc = "idle"
  /\ \E len \in 0..MaxPaths :
       \E filePaths \in [1..len -> FilePaths] :
          LET Result(r) ==
                batch' = [paths |-> filePaths, successful |-> r.successful,
                          failed |-> r.failed, threw |-> r.threw]
          IN  Result(analyzeFilesWithErrors(filePaths, now))
  /\ pc' = "done"
  /\ op' = "analyzeFiles"
  /\ UNCHANGED <<lang, tree, complexity, run, analysis, prev, now, reported,
                 defaults, config, env,
                 fault, history>>

\* ConfigLoader.loadConfig(startPath) under a file system
LoadConfigUnder(dirs, content, userConfig) ==
  /\ env' = [dirs |-> dirs, content |-> content, userConfig |-> userConfig,
             threshold |-> ""]
  /\ config' = loadConfig(defaults, dirs, content, userConfig)

LoadConfig ==
  /\ pc = "idle"
  /\ \E len \in 1..MaxDirs :
       \E dirs \in [1..len -> ConfigDirs] :
          IF findConfigFile(dirs) = NoPath
          THEN LoadConfigUnder(dirs, "none", NoUserConfig)
          ELSE \/ \E content \in Contents \ {"valid"} :
                    LoadConfigUnder(dirs, content, NoUserConfig)
               \/ \E userConfig \in UserConfigs :
                    LoadConfigUnder(dirs, "valid", userConfig)
  /\ pc' = "done"
  /\ op' = "loadConfig"
  /\ UNCHANGED <<lang, tree, complexity, run, analysis, prev, now, reported,
                 defaults, batch,
                 fault, history>>

\* the caller assigns to a key of the object loadConfig returned
Mutate ==
  /\ pc = "done"
  /\ op = "loadConfig"
  /\ \E k \in UserKeys :
       \E v \in UserValues \ {config.value[k]} :
          /\ config' = [config EXCEPT !.value = [k2 \in DOMAIN config.value |->
                                                   IF k2 = k THEN v ELSE config.value[k2]]]
          /\ defaults' = IF config.shared
                         THEN [k2 \in DOMAIN defaults |-> IF k2 = k THEN v ELSE defaults[k2]]
                         ELSE defaults
  /\ UNCHANGED <<pc, op, lang, tree, complexity, run, analysis, prev, now, reported,
                 env, batch,
                 fault, history>>

\* analyzeCommand on one readable file of a supported language: the
\* configuration is loaded and overridden, then the file goes to
\* analyzer.analyzeFiles, which takes the file paths and nothing else
AnalyzeUnder(dirs, content, userConfig, threshold) ==
  LET Loaded(c) ==
        /\ config' = [c EXCEPT !.value = overrideThreshold(c.value, threshold)]
        /\ defaults' = IF c.shared THEN overrideThreshold(defaults, threshold)
                       ELSE defaults
  IN  /\ env' = [dirs |-> dirs, content |-> content, userConfig |-> userConfig,
                 threshold |-> threshold]
      /\ Loaded(loadConfig(defaults, dirs, content, userConfig))

AnalyzeCommand ==
  /\ pc = "idle"
  /\ \E threshold \in ThresholdOptions :
       \E dir \in ConfigDirs :
          IF findConfigFile(<<dir>>) = NoPath
          THEN AnalyzeUnder(<<dir>>, "none", NoUserConfig, threshold)
          ELSE \/ \E content \in Contents \ {"valid"} :
                    AnalyzeUnder(<<dir>>, content, NoUserConfig, threshold)
               \/ \E userConfig \in {u \in UserConfigs :
                                        DOMAIN u \subseteq {"cyclomaticThreshold"}} :
                    AnalyzeUnder(<<dir>>, "valid", userConfig, threshold)
  /\ \E languageName \in LanguageNames :
       LET P(t) == ParseOf(languageName, t)
       IN  SomeTree(MaxCommandNodes, FileRoots(languageName),
                    CommandKinds(languageName), P)
  /\ pc' = "done"
  /\ op' = "analyze"
  /\ UNCHANGED <<complexity, run, prev, now, reported, batch,
                 fault, history>>

\* fixGenerator.generateFix(issue)
GenerateFix ==
  /\ pc = "idle"
  /\ \E type \in IssueTypes \cup {UnknownIssueType} :
       \E severity \in Severities :
          LET Fixed(issue) == reported' = <<[issue EXCEPT !.fix = generateFix(issue)]>>
          IN  Fixed(Issue(type, "CODE_SMELL", severity, 1))
  /\ pc' = "done"
  /\ op' = "generateFix"
  /\ UNCHANGED <<lang, tree, complexity, run, analysis, prev, now,
                 defaults, config, env, batch,
                 fault, history>>

\* memoryLeakDetector.detectIntervalLeaks(node)
DetectIntervalLeaks ==
  /\ pc = "idle"
  /\ \E len \in 0..MaxCalls :
       \E callees \in [1..len -> CalleeNames] :
          /\ tree' = CallsOf(callees)
          /\ reported' = detectIntervalLeaks(CallsOf(callees), 1)
  /\ pc' = "done"
  /\ op' = "intervalLeaks"
  /\ UNCHANGED <<lang, complexity, run, analysis, prev, now,
                 defaults, config, env, batch,
                 fault, history>>

\* codeSmellDetector.detectTypeCoercion(node)
DetectTypeCoercion ==
  /\ pc = "idle"
  /\ \E first \in Operands :
       \E len \in 0..MaxComparisons :
          \E steps \in [1..len -> [operator : ComparisonOperators, right : Operands]] :
             LET Detected(t) == tree' = t /\ reported' = detectTypeCoercion(t, 1)
             IN  Detected(ComparisonOf(first, steps))
  /\ pc' = "done"
  /\ op' = "typeCoercion"
  /\ UNCHANGED <<lang, complexity, run, analysis, prev, now,
                 defaults, config, env, batch,
                 fault, history>>

\* parser.parse(code, filePath) where one detector invocation may raise (an
\* error inside a detector, such as the stack running out in its recursive
\* traverse)
ParseWithFault ==
  /\ pc = "idle"
  /\ \E languageName \in LanguageNames :
       \E len \in 0..MaxItems :
          \E items \in [1..len -> Items] :
             LET Outcome(t, r) ==
                   /\ lang' = languageName
                   /\ tree' = t
                   /\ fault' = r
                   /\ analysis' = IF r.threw THEN NoAnalysis
                                  ELSE parse(languageName, t, FilePathOf(languageName), now)
                 Faulty(t, count) ==
                   \E f \in 0..count :
                      \E k \in DOMAIN Detectors :
                         Outcome(t, runDetectors(count, IF f = 0 THEN <<0, 0>> ELSE <<f, k>>))
                 Parsed(t) == Faulty(t, Len(AnalysedNodes(languageName, t)))
             IN  Parsed(FileOf(languageName, items))
  /\ pc' = "done"
  /\ op' = "parseWithFault"
  /\ UNCHANGED <<complexity, run, prev, now, reported,
                 defaults, config, env, batch, history>>

\* saveAnalysis(analyses) at the time of the clock
SaveAnalysis ==
  /\ pc = "idle"
  /\ Len(history) < MaxStored
  /\ \E analyses \in SavedAnalyses :
       /\ history' = saveAnalysis(history, NextId(history), now, analyses)
       /\ reported' = <<NextId(history)>>
  /\ pc' = "done"
  /\ op' = "saveAnalysis"
  /\ UNCHANGED <<lang, tree, complexity, run, analysis, prev, now,
                 defaults, config, env, batch, fault>>

\* getRecentAnalyses(limit)
GetRecentAnalyses ==
  /\ pc = "idle"
  /\ \E limit \in Limits :
       /\ history' = getRecentAnalyses(history, limit).stored
       /\ reported' = getRecentAnalyses(history, limit).result
  /\ pc' = "done"
  /\ op' = "getRecentAnalyses"
  /\ UNCHANGED <<lang, tree, complexity, run, analysis, prev, now,
                 defaults, config, env, batch, fault>>

\* pruneHistory(keepLast)
PruneHistory ==
  /\ pc = "idle"
  /\ \E keepLast \in Limits :
       /\ history' = pruneHistory(history, keepLast).stored
       /\ reported' = <<pruneHistory(history, keepLast).result>>
  /\ pc' = "done"
  /\ op' = "pruneHistory"
  /\ UNCHANGED <<lang, tree, complexity, run, analysis, prev, now,
                 defaults, config, env, batch, fault>>

\* getStatistics()
GetStatistics ==
  /\ pc = "idle"
  /\ reported' = <<getStatistics(history)>>
  /\ pc' = "done"
  /\ op' = "getStatistics"
  /\ UNCHANGED <<lang, tree, complexity, run, analysis, prev, now,
                 defaults, config, env, batch, fault, history>>

\* the clock of new Date() advances between two calls on the database
Elapse ==
  /\ pc = "idle"
  /\ now < MaxTimestamp
  /\ now' = now + 1
  /\ UNCHANGED <<pc, op, lang, tree, complexity, run, analysis, prev, reported,
                 defaults, config, env, batch, fault, history>>

\* time passes between two calls
Tick ==
  /\ pc = "done"
  /\ op = "parse"
  /\ now < MaxClock
  /\ now' = now + 1
  /\ UNCHANGED <<pc, op, lang, tree, complexity, run, analysis, prev, reported,
               defaults, config, env, batch,
                 fault, history>>

\* the same parser parses the same source under the same path once more
Reparse ==
  /\ pc = "done"
  /\ op = "parse"
  /\ prev' = analysis
  /\ analysis' = parse(lang, tree, analysis.filePath, now)
  /\ pc' = "again"
  /\ UNCHANGED <<op, lang, tree, complexity, run, now, reported,
               defaults, config, env, batch,
                 fault, history>>

\* performanceDetector.detectNestedLoops(node)
NestedLoopsOf(t) ==
  /\ tree' = t
  /\ reported' = detectNestedLoops(t, 1)

DetectNestedLoops ==
  /\ pc = "idle"
  /\ LET P(t) == NestedLoopsOf(t)
     IN  SomeTree(MaxLoopNodes, LoopRoots, LoopKinds, P)
  /\ pc' = "done"
  /\ op' = "nestedLoops"
  /\ UNCHANGED <<lang, complexity, run, analysis, prev, now,
               defaults, config, env, batch,
                 fault, history>>

\* codeSmellDetector.detectUnusedVariables(node)
UnusedVariablesOf(t) ==
  /\ tree' = t
  /\ reported' = detectUnusedVariables(t, 1)

DetectUnusedVariables ==
  /\ pc = "idle"
  /\ \E len \in 0..MaxStatements :
       \E statements \in [1..len -> Statements] :
          UnusedVariablesOf(FunctionOf(statements))
  /\ pc' = "done"
  /\ op' = "unusedVariables"
  /\ UNCHANGED <<lang, complexity, run, analysis, prev, now,
               defaults, config, env, batch,
                 fault, history>>

\* parameterCount: this.countPythonParameters(node)
PythonParametersOf(t) ==
  /\ tree' = t
  /\ complexity' = countPythonParameters(t, 1)

CountPythonParameters ==
  /\ pc = "idle"
  /\ \E len \in 0..MaxParameterNodes :
       \E params \in [1..len -> ParameterKinds] :
          PythonParametersOf(PythonFunctionOf(params))
  /\ pc' = "done"
  /\ op' = "pythonParameters"
  /\ lang' = "python"
  /\ UNCHANGED <<run, analysis, prev, now, reported,
               defaults, config, env, batch,
                 fault, history>>

\* codeSmellDetector.detectMagicNumbers(node)
MagicNumbersOf(t) ==
  /\ tree' = t
  /\ reported' = detectMagicNumbers(t, 1)

DetectMagicNumbers ==
  /\ pc = "idle"
  /\ LET P(t) == MagicNumbersOf(t)
     IN  SomeTree(MaxNumberNodes, NumberRoots, NumberKinds, P)
  /\ pc' = "done"
  /\ op' = "magicNumbers"
  /\ UNCHANGED <<lang, complexity, run, analysis, prev, now,
               defaults, config, env, batch,
                 fault, history>>

\* the caller drops the result and is ready for the next call
Return ==
  /\ pc # "idle"
  /\ pc' = "idle"
  /\ op' = "none"
  /\ lang' = "javascript"
  /\ tree' = NoTree
  /\ complexity' = 0
  /\ run' = NoRun
  /\ analysis' = NoAnalysis
  /\ prev' = NoAnalysis
  /\ reported' = <<>>
  /\ config' = NoConfig
  /\ env' = NoEnv
  /\ batch' = NoBatch
  /\ fault' = NoFault
  /\ UNCHANGED <<now, defaults, history>>

NextCyclomatic == CalcCyclomatic \/ Return

SpecCyclomatic == Init /\ [][NextCyclomatic]_vars

NextCognitive == CalcCognitive \/ Return

SpecCognitive == Init /\ [][NextCognitive]_vars

NextParse == Parse \/ Return

SpecParse == Init /\ [][NextParse]_vars

NextReparse == ParseBrief \/ Tick \/ Reparse \/ Return

SpecReparse == Init /\ [][NextReparse]_vars

NextNestedLoops == DetectNestedLoops \/ Return

SpecNestedLoops == Init /\ [][NextNestedLoops]_vars

NextUnusedVariables == DetectUnusedVariables \/ Return

SpecUnusedVariables == Init /\ [][NextUnusedVariables]_vars

NextMagicNumbers == DetectMagicNumbers \/ Return

SpecMagicNumbers == Init /\ [][NextMagicNumbers]_vars

NextPythonParameters == CountPythonParameters \/ Return

SpecPythonParameters == Init /\ [][NextPythonParameters]_vars

NextParseClasses == ParseClasses \/ Return

SpecParseClasses == Init /\ [][NextParseClasses]_vars

NextAnalyzeFiles == AnalyzeFilesWithErrors \/ Return

SpecAnalyzeFiles == Init /\ [][NextAnalyzeFiles]_vars

NextLoadConfig == LoadConfig \/ Mutate \/ Return

SpecLoadConfig == Init /\ [][NextLoadConfig]_vars

NextAnalyzeCommand == AnalyzeCommand \/ Return

SpecAnalyzeCommand == Init /\ [][NextAnalyzeCommand]_vars

NextGenerateFix == GenerateFix \/ Return

SpecGenerateFix == Init /\ [][NextGenerateFix]_vars

NextIntervalLeaks == DetectIntervalLeaks \/ Return

SpecIntervalLeaks == Init /\ [][NextIntervalLeaks]_vars

NextTypeCoercion == DetectTypeCoercion \/ Return

SpecTypeCoercion == Init /\ [][NextTypeCoercion]_vars

NextParseWithFault == ParseWithFault \/ Return

SpecParseWithFault == Init /\ [][NextParseWithFault]_vars

NextHistory ==
  SaveAnalysis \/ GetRecentAnalyses \/ PruneHistory \/ GetStatistics \/ Elapse \/ Return

SpecHistory == Init /\ [][NextHistory]_vars

(* ------------------------------ C1 -------------------------------------- *)

\* the issues of a FileAnalysis, each named by where it is listed
FunctionIssues(a) ==
  UNION {{<<f, i>> : i \in DOMAIN a.functions[f].issues} : f \in DOMAIN a.functions}

MethodIssues(a) ==
  UNION {UNION {{<<c, m, i>> : i \in DOMAIN a.classes[c].methods[m].issues} :
                  m \in DOMAIN a.classes[c].methods} :
           c \in DOMAIN a.classes}

\* C1: totalIssues of every FileAnalysis returned by parse equals the number
\* of issues listed under its functions plus the number listed under the
\* methods of its classes, file-level issues being attached before the count.
C1_TotalIssuesIsSum ==
  (pc = "done" /\ op = "parse") =>
     analysis.totalIssues = Cardinality(FunctionIssues(analysis))
                              + Cardinality(MethodIssues(analysis))

\* file-level issues went to the first method of the first class
C1_Witness ==
  /\ pc = "done" /\ op = "parse" /\ lang = "Python"
  /\ Len(analysis.functions) = 0
  /\ Len(analysis.classes) > 0
  /\ Len(analysis.classes[1].methods) > 0
  /\ \E i \in DOMAIN analysis.classes[1].methods[1].issues :
        analysis.classes[1].methods[1].issues[i].type = "TIGHT_COUPLING"
  /\ analysis.totalIssues >= 1

(* ------------------------------ C2 -------------------------------------- *)

DecisionCount(language, t, node) ==
  Cardinality({i \in Subtree(t, node) : TypeOf(t, i) \in getDecisionNodes(language)})

\* C2: calculate returns exactly 1 + the number of nodes of the function
\* subtree (root included) whose type is in the language's decision
\* vocabulary, each counted once; hence 1 when there is no decision node.
C2_CyclomaticIsOnePlusDecisionNodes ==
  (pc = "done" /\ op = "cyclomatic") =>
     /\ complexity = 1 + DecisionCount(lang, tree, 1)
     /\ (DecisionCount(lang, tree, 1) = 0 => complexity = 1)

C2_Witness ==
  /\ pc = "done" /\ op = "cyclomatic"
  /\ tree.n = 4
  /\ TypeOf(tree, 2) = "if_statement" /\ TypeOf(tree, 3) = "else_clause"
  /\ TypeOf(tree, 4) = "if_statement" /\ tree.parent[4] = 3 /\ tree.parent[3] = 2
  /\ complexity = 3

(* ------------------------------ C3 -------------------------------------- *)

IsJs(language) == language \in {"javascript", "typescript"}

OperatorExpressionTypes == {"binary_expression", "logical_expression", "unary_expression"}

ShortCircuitOperators == {"&&", "||", "??"}

\* the nodes C3 allows to count: the non-operator decision constructs and the
\* short-circuit operator expressions
C3_Counted(t) ==
  {i \in 1..t.n :
      \/ TypeOf(t, i) \in CommonDecisionNodes
      \/ /\ TypeOf(t, i) \in OperatorExpressionTypes
         /\ t.kind[i].text \in ShortCircuitOperators}

\* C3: for JavaScript/TypeScript the only operator expressions counted as
\* decision points are the short-circuit operators &&, || and ??, each once;
\* a function whose only decision construct is one `if` on `x > 0` scores 2.
C3_OnlyShortCircuitOperatorsCount ==
  (pc = "done" /\ op = "cyclomatic" /\ IsJs(lang)) =>
     /\ complexity = 1 + Cardinality(C3_Counted(tree))
     /\ (tree = WithIfFixture => complexity = 2)

(* ------------------------------ C4 -------------------------------------- *)

NeutralTypes ==
  {"function_declaration", "arrow_function", "function", "identifier",
   "formal_parameters", "statement_block", "parenthesized_expression",
   "return_statement", "return", "number", "unary_expression", "else",
   "if", "(", ")", "{", "}", ";", ">", "-", "=>"}

\* a function whose body is one if/else on the comparison `x > 0`: one `if`
\* that is not an else-if, its condition the only comparison, one else
\* clause below the `if`, and nothing else but returns, literals and tokens
IsIfElseFunction(t) ==
  \E i \in 2..t.n : \E c \in 2..t.n : \E e \in 2..t.n :
     /\ TypeOf(t, i) = "if_statement" /\ ~isElseIf(t, i)
     /\ TypeOf(t, c) = "binary_expression" /\ t.kind[c].text = ">"
     /\ i \in SeqToSet(Ancestors(t, c)) /\ ~(e \in SeqToSet(Ancestors(t, c)))
     /\ TypeOf(t, e) = "else_clause" /\ ParentOf(t, e) = i
     /\ \A j \in (1..t.n) \ {i, c, e} : TypeOf(t, j) \in NeutralTypes

\* C4: a JavaScript function whose body is a single if/else on `x > 0` with
\* one return in each branch has cyclomatic complexity exactly 3.
C4_IfElseIsThree ==
  (pc = "done" /\ op = "cyclomatic" /\ IsJs(lang) /\ IsIfElseFunction(tree)) =>
     complexity = 3

C4_Witness ==
  /\ pc = "done" /\ op = "cyclomatic" /\ lang = "javascript"
  /\ tree = WithIfElseFixture
  /\ IsIfElseFunction(tree)
  /\ complexity = 3

(* ------------------------------ C5 -------------------------------------- *)

IsBreakFlow(language, t, i) == TypeOf(t, i) \in getBreakFlowNodes(language)

\* the number of break-in-flow ancestors of a node inside the function
BreakFlowAncestors(language, t, i) ==
  Cardinality({a \in SeqToSet(Ancestors(t, i)) : IsBreakFlow(language, t, a)})

\* C5: every break-in-flow node that is not an else-if adds exactly 1 + L,
\* L the number of its break-in-flow ancestors inside the function; two
\* sibling break-in-flow nodes therefore add the same amount.
C5_BreakFlowAddsOnePlusAncestors ==
  (pc = "done" /\ op = "cognitive") =>
     /\ \A i \in 1..tree.n :
          (IsBreakFlow(lang, tree, i) /\ ~isElseIf(tree, i)) =>
             run.added[i] = 1 + BreakFlowAncestors(lang, tree, i)
     /\ \A i \in 1..tree.n : \A j \in 1..tree.n :
          ( /\ ParentOf(tree, i) = ParentOf(tree, j)
            /\ IsBreakFlow(lang, tree, i) /\ ~isElseIf(tree, i)
            /\ IsBreakFlow(lang, tree, j) /\ ~isElseIf(tree, j) ) =>
             run.added[i] = run.added[j]

(* ------------------------------ C6 -------------------------------------- *)

\* C6: an else-if node adds a net 0 for itself, and its descendants are
\* scored at a nesting level one higher than the level it was entered at.
C6_ElseIfNetZeroNestingRaised ==
  (pc = "done" /\ op = "cognitive") =>
     \A e \in 1..tree.n :
        isElseIf(tree, e) =>
           /\ run.added[e] = 0
           /\ \A c \in 1..tree.n :
                ParentOf(tree, c) = e => run.at[c] = run.at[e] + 1

(* ------------------------------ C7 -------------------------------------- *)

\* an occurrence of a short-circuit logical operator in the language's tree
IsShortCircuitOccurrence(language, t, i) ==
  IF language = "python"
  THEN TypeOf(t, i) = "boolean_operator" /\ t.kind[i].text \in {"and", "or"}
  ELSE /\ TypeOf(t, i) \in {"binary_expression", "logical_expression"}
       /\ t.kind[i].text \in ShortCircuitOperators

\* C7: each occurrence of a short-circuit logical operator (&&, ||, ?? in
\* the C-like languages, and/or in Python) adds exactly 1, at any nesting.
C7_LogicalOperatorAddsOne ==
  (pc = "done" /\ op = "cognitive") =>
     \A i \in 1..tree.n :
        IsShortCircuitOccurrence(lang, tree, i) => run.added[i] = 1

(* ------------------------------ C8 -------------------------------------- *)

IsCallNode(t, i) == TypeOf(t, i) \in {"call_expression", "call"}

FunctionHasName(t) == t.kind[1].text # ""

\* C8: each call node whose callee text equals the enclosing function's name
\* adds exactly 1; a function without a name never receives the penalty.
C8_RecursiveCallAddsOne ==
  (pc = "done" /\ op = "cognitive") =>
     \A i \in 1..tree.n :
        IsCallNode(tree, i) =>
           IF FunctionHasName(tree) /\ tree.kind[i].text = tree.kind[1].text
           THEN run.added[i] = 1
           ELSE run.added[i] = 0


(* ------------------------------ C9 -------------------------------------- *)

\* the bounds every ComplexityMetrics record obeys; `one` is the value 1 in
\* the unit the record's complexity fields are held in
ValidMetrics(m, one) ==
  /\ m.cyclomaticComplexity >= one
  /\ m.cognitiveComplexity >= 0
  /\ m.nestingDepth >= 0
  /\ m.linesOfCode >= 0
  /\ m.effectiveLinesOfCode >= 0
  /\ m.functionLength >= 0
  /\ m.parameterCount >= 0

\* C9: in every FileAnalysis every ComplexityMetrics record (per function,
\* per class method, per class and overall) has cyclomaticComplexity >= 1 and
\* every other field >= 0, also with zero functions or zero methods.
C9_MetricsWithinBounds ==
  (pc = "done" /\ op = "parse") =>
     /\ ValidMetrics(analysis.overallMetrics, Tenths(1))
     /\ \A f \in DOMAIN analysis.functions : ValidMetrics(analysis.functions[f].metrics, 1)
     /\ \A c \in DOMAIN analysis.classes :
          /\ ValidMetrics(analysis.classes[c].metrics, Tenths(1))
          /\ \A m \in DOMAIN analysis.classes[c].methods :
               ValidMetrics(analysis.classes[c].methods[m].metrics, 1)

\* a file without functions holding a class without methods
C9_Witness ==
  /\ pc = "done" /\ op = "parse"
  /\ Len(analysis.functions) = 0
  /\ \E c \in DOMAIN analysis.classes : Len(analysis.classes[c].methods) = 0
  /\ analysis.overallMetrics.cyclomaticComplexity = Tenths(1)

(* ------------------------------ C10 ------------------------------------- *)

WithoutDate(a) == [a EXCEPT !.analysisDate = 0]

LoopStatementTypes == LoopTypes \cup {"do_statement"}

IsLoopNode(t, i) == TypeOf(t, i) \in LoopStatementTypes

\* the loops on the path from node i down to its descendant j, both included
LoopsOnPath(t, i, j) ==
  Cardinality({a \in (SeqToSet(Ancestors(t, j)) \cup {j}) \cap Subtree(t, i) :
                  IsLoopNode(t, a)})

\* the maximum loop-nesting depth of the subtree of i, counting i itself
MaxLoopDepth(t, i) == SetMax({LoopsOnPath(t, i, j) : j \in Subtree(t, i)})

\* the NESTED_LOOPS issues reported for node i (every node starts its own line)
NestedLoopIssues(t, i) ==
  {k \in DOMAIN reported : reported[k].type = "NESTED_LOOPS"
                           /\ reported[k].line = startRow(t, i) + 1}

\* C11: for every loop node with maximum loop-nesting depth d (itself
\* counted), the detector emits exactly one NESTED_LOOPS issue of severity
\* high when d = 2, exactly one of severity critical when d >= 3, and none
\* when d = 1.
C11_NestedLoopsBySeverity ==
  (pc = "done" /\ op = "nestedLoops") =>
     \A i \in 1..tree.n :
        IsLoopNode(tree, i) =>
           LET d == MaxLoopDepth(tree, i)
               found == NestedLoopIssues(tree, i)
           IN  /\ d = 1 => found = {}
               /\ d >= 2 => Cardinality(found) = 1
               /\ d = 2 => \A k \in found : reported[k].severity = "high"
               /\ d >= 3 => \A k \in found : reported[k].severity = "critical"

(* ------------------------------ C12 ------------------------------------- *)

\* the name nodes of the declared variables
IsDeclaredNameNode(t, i) ==
  /\ TypeOf(t, i) = "identifier"
  /\ ParentOf(t, i) # 0
  /\ TypeOf(t, ParentOf(t, i)) = "variable_declarator"
  /\ childForFieldName(t, ParentOf(t, i), "name") = i

\* a DEAD_CODE issue is reported on the line of name node i
DeadCodeAt(t, i) ==
  \E k \in DOMAIN reported :
     reported[k].type = "DEAD_CODE" /\ reported[k].line = startRow(t, i) + 1

\* C12: a declared variable whose name starts with an underscore is never
\* reported as DEAD_CODE, referenced or not.
C12_UnderscoreNeverDeadCode ==
  (pc = "done" /\ op = "unusedVariables") =>
     \A i \in 1..tree.n :
        (IsDeclaredNameNode(tree, i) /\ tree.kind[i].text = "_unused")
           => ~DeadCodeAt(tree, i)

\* `_unused` is declared and referenced nowhere, next to a reported variable
C12_Witness ==
  /\ pc = "done" /\ op = "unusedVariables"
  /\ \E i \in 1..tree.n :
        IsDeclaredNameNode(tree, i) /\ tree.kind[i].text = "_unused"
  /\ \A j \in 1..tree.n :
        (TypeOf(tree, j) = "identifier" /\ tree.kind[j].text = "_unused")
           => IsDeclaredNameNode(tree, j)
  /\ Len(reported) = 1

(* ------------------------------ C13 ------------------------------------- *)

\* an identifier outside the declaration of name node i that has the text of
\* i and is not itself the name of a declaration
IsReferenceElsewhere(t, j, i) ==
  /\ TypeOf(t, j) = "identifier"
  /\ t.kind[j].text = t.kind[i].text
  /\ ~IsDeclaredNameNode(t, j)
  /\ j \notin Subtree(t, ParentOf(t, i))

\* C13: DEAD_CODE is reported for a declared variable only if its name is
\* referenced nowhere else in the analysed subtree, the initializer of another
\* declaration included.
C13_ReportedOnlyIfUnreferenced ==
  (pc = "done" /\ op = "unusedVariables") =>
     \A i \in 1..tree.n :
        (IsDeclaredNameNode(tree, i) /\ DeadCodeAt(tree, i))
           => ~\E j \in 1..tree.n : IsReferenceElsewhere(tree, j, i)

(* ------------------------------ C14 ------------------------------------- *)

\* the allow-list as the claim states it
PowersOfTwo == {1, 2, 4, 8, 16, 32, 64, 128, 256, 512, 1024}

StatedAllowList ==
  {0, 1, -1, 2, 10, 100, 1000, 60, 24, 7} \cup 100..599 \cup PowersOfTwo

MagicNumberAt(t, i) ==
  \E k \in DOMAIN reported :
     reported[k].type = "MAGIC_NUMBER" /\ reported[k].line = startRow(t, i) + 1

\* C14: a numeric literal whose value is in the allow-list (0, 1, -1, 2, 10,
\* 100, 1000, 60, 24, 7, the HTTP status codes 100..599, the powers of two up
\* to 1024) is never reported as MAGIC_NUMBER, whatever its context.
C14_AllowListNeverMagic ==
  (pc = "done" /\ op = "magicNumbers") =>
     \A i \in 1..tree.n :
        (TypeOf(tree, i) = "number" /\ parseFloat(tree.kind[i].text) \in StatedAllowList)
           => ~MagicNumberAt(tree, i)

(* ------------------------------ C15 ------------------------------------- *)

Punctuation == {"(", ")", ","}

\* the parameter nodes of the parameter list of the function at the root
ParameterNodes(t) ==
  {c \in 1..t.n : /\ ParentOf(t, c) # 0
                  /\ TypeOf(t, ParentOf(t, c)) = "parameters"
                  /\ TypeOf(t, c) \notin Punctuation}

ReceiverNodes(t) ==
  {c \in ParameterNodes(t) : paramName(t.kind[c].text) \in {"self", "cls"}}

\* C15: the parameter count of a Python function is the number of parameter
\* nodes of its parameter list, punctuation excluded, minus those whose name
\* without annotation and default value is self or cls.
C15_PythonParameterCount ==
  (pc = "done" /\ op = "pythonParameters") =>
     complexity = Cardinality(ParameterNodes(tree)) - Cardinality(ReceiverNodes(tree))

(* ------------------------------ C16 ------------------------------------- *)

ClassTypes == {"class_declaration", "class_definition"}

\* the class nodes of the file, in source order
ClassNodes(t) == SelectSeq(Preorder(t, 1), LAMBDA j : TypeOf(t, j) \in ClassTypes)

\* the functions defined as methods of the class: the function nodes of its body
MethodNodesOf(t, classNode) ==
  SelectSeq(Preorder(t, classNode),
            LAMBDA j : /\ TypeOf(t, j) \in {"method_definition", "function_definition"}
                       /\ ParentOf(t, j) # 0
                       /\ ParentOf(t, ParentOf(t, j)) = classNode)

NamesOf(t, nodes) == [i \in 1..Len(nodes) |-> t.kind[nodes[i]].text]

\* C16: parsing JavaScript or TypeScript source with class declarations yields
\* one ClassInfo per class, with the name of the class and its methods in
\* source order.
C16_JsClassesReported ==
  (pc = "done" /\ op = "parseClasses" /\ ~IsPython(lang)) =>
     /\ Len(analysis.classes) = Len(ClassNodes(tree))
     /\ \A k \in DOMAIN analysis.classes :
           /\ analysis.classes[k].name = tree.kind[ClassNodes(tree)[k]].text
           /\ [i \in DOMAIN analysis.classes[k].methods |->
                 analysis.classes[k].methods[i].name]
                = NamesOf(tree, MethodNodesOf(tree, ClassNodes(tree)[k]))

(* ------------------------------ C17 ------------------------------------- *)

FunctionDefinitionTypes == JsFunctionTypes \cup {"function_definition"}

IsClassMethod(t, j) ==
  \E k \in DOMAIN ClassNodes(t) : j \in SeqToSet(MethodNodesOf(t, ClassNodes(t)[k]))

InFunctions(t, j) ==
  \E i \in DOMAIN analysis.functions :
     analysis.functions[i].startLine = startRow(t, j) + 1

InMethodsOfItsClass(t, j) ==
  \E k \in DOMAIN analysis.classes :
     /\ analysis.classes[k].startLine = startRow(t, ParentOf(t, ParentOf(t, j))) + 1
     /\ \E i \in DOMAIN analysis.classes[k].methods :
           analysis.classes[k].methods[i].startLine = startRow(t, j) + 1

\* C17: a function defined as a method of a class is reported in the methods
\* of that class and never in the functions of the file; every other function
\* definition is reported in the functions of the file.
C17_MethodsUnderTheirClass ==
  (pc = "done" /\ op = "parseClasses") =>
     \A j \in 1..tree.n :
        TypeOf(tree, j) \in FunctionDefinitionTypes =>
           IF IsClassMethod(tree, j)
           THEN InMethodsOfItsClass(tree, j) /\ ~InFunctions(tree, j)
           ELSE InFunctions(tree, j)

(* ------------------------------ C18 ------------------------------------- *)

SuccessfulPaths == [i \in DOMAIN batch.successful |-> batch.successful[i].filePath]

FailedPaths == [i \in DOMAIN batch.failed |-> batch.failed[i].filePath]

NoConfigFile ==
  \A i \in DOMAIN env.dirs : \A j \in DOMAIN CONFIG_FILES : CONFIG_FILES[j] \notin env.dirs[i]

\* C19: loadConfig never throws; without a config file, or with one that
\* cannot be read or is not valid JSON, it returns a configuration equal to
\* DEFAULT_CONFIG; otherwise DEFAULT_CONFIG with exactly the keys of the file
\* overridden; the object returned is a fresh copy, so assignments to it never
\* change DEFAULT_CONFIG.
C19_LoadConfigDefaultsAndOverrides ==
  /\ defaults = DEFAULT_CONFIG
  /\ (pc = "done" /\ op = "loadConfig") =>
        /\ ~config.threw
        /\ ~config.shared
        /\ IF NoConfigFile \/ env.content \in {"unreadable", "invalid"}
           THEN config.returned = DEFAULT_CONFIG
           ELSE /\ DOMAIN config.returned = DOMAIN DEFAULT_CONFIG \cup DOMAIN env.userConfig
                /\ \A k \in DOMAIN env.userConfig : config.returned[k] = env.userConfig[k]
                /\ \A k \in DOMAIN DEFAULT_CONFIG \ DOMAIN env.userConfig :
                      config.returned[k] = DEFAULT_CONFIG[k]

\* the file overrides cyclomaticThreshold, the caller then assigns to
\* cognitiveThreshold of the object returned
C19_Witness ==
  /\ pc = "done" /\ op = "loadConfig"
  /\ env.content = "valid"
  /\ DOMAIN env.userConfig = {"cyclomaticThreshold"}
  /\ config.returned.cyclomaticThreshold = 15
  /\ config.returned.maxNestingDepth = maxNestingDepth
  /\ config.returned.cognitiveThreshold = cognitiveThreshold
  /\ config.value.cognitiveThreshold = 1
  /\ defaults.cognitiveThreshold = cognitiveThreshold

(* ------------------------------ C20 ------------------------------------- *)

HasHighComplexity(fn) ==
  \E i \in DOMAIN fn.issues : fn.issues[i].type = "HIGH_COMPLEXITY"

\* C20: with T the cyclomatic threshold of the configuration, overridden by
\* --threshold, a function of an analyze run gets a HIGH_COMPLEXITY issue for
\* its cyclomatic complexity iff that complexity is greater than T (functions
\* whose cognitive complexity is within its threshold, so that every
\* HIGH_COMPLEXITY issue is the cyclomatic one).
C20_ConfiguredThresholdDecides ==
  (pc = "done" /\ op = "analyze") =>
     \A i \in DOMAIN analysis.functions :
        analysis.functions[i].metrics.cognitiveComplexity <= config.value.cognitiveThreshold
          => (HasHighComplexity(analysis.functions[i])
                <=> analysis.functions[i].metrics.cyclomaticComplexity
                      > config.value.cyclomaticThreshold)

(* ------------------------------ C21 ------------------------------------- *)

\* C21: generateFix returns a fix record for every type of the IssueType
\* enum (automated or guidance) and returns no fix only for a type outside
\* the enum.
C21_EveryEnumTypeHasFix ==
  (pc = "done" /\ op = "generateFix") =>
     (reported[1].fix = "none" <=> reported[1].type \notin IssueTypes)

(* ------------------------------ C22 ------------------------------------- *)

\* the clear call and the issue type that go with a registration call
ClearOf(name) == IF name = "setInterval" THEN "clearInterval" ELSE "clearTimeout"

LeakTypeOf(name) == IF name = "setInterval" THEN "INTERVAL_LEAK" ELSE "TIMEOUT_LEAK"

Calls(t, name) == {n \in 1..t.n : CalleeIdentifier(t, n) = name}

\* C22: every setInterval / setTimeout call in a subtree without a matching
\* clearInterval / clearTimeout call yields a critical leak issue; with a
\* matching clear call in the subtree no such issue is reported.
C22_EveryUnclearedRegistrationLeaks ==
  (pc = "done" /\ op = "intervalLeaks") =>
     \A name \in {"setInterval", "setTimeout"} :
        IF Calls(tree, ClearOf(name)) = {}
        THEN \A n \in Calls(tree, name) :
                \E k \in DOMAIN reported :
                   /\ reported[k].type = LeakTypeOf(name)
                   /\ reported[k].severity = "critical"
                   /\ reported[k].line = startRow(tree, n) + 1
        ELSE \A k \in DOMAIN reported : reported[k].type # LeakTypeOf(name)

(* ------------------------------ C23 ------------------------------------- *)

ImportsOf(t) ==
  Cardinality({j \in 1..t.n : TypeOf(t, j) \in {"import_statement", "import_declaration"}})

\* the issues of a FileAnalysis, of its functions and of the methods of its classes
IssuesOfFile(a) ==
  UNION {SeqToSet(a.functions[i].issues) : i \in DOMAIN a.functions}
  \cup UNION {UNION {SeqToSet(a.classes[k].methods[i].issues) :
                       i \in DOMAIN a.classes[k].methods} : k \in DOMAIN a.classes}

\* C23: a file with more than 10 import statements always has a
\* TIGHT_COUPLING issue in its FileAnalysis, medium for 11 to 15 imports and
\* high above; a file with 10 or fewer has none.
C23_ManyImportsTightCoupling ==
  (pc = "done" /\ op = "parse") =>
     IF ImportsOf(tree) > 10
     THEN \E issue \in IssuesOfFile(analysis) :
             /\ issue.type = "TIGHT_COUPLING"
             /\ issue.severity = IF ImportsOf(tree) > 15 THEN "high" ELSE "medium"
     ELSE \A issue \in IssuesOfFile(analysis) : issue.type # "TIGHT_COUPLING"

(* ------------------------------ C24 ------------------------------------- *)

HasNullOperand(t, n) ==
  \E field \in {"left", "right"} : FieldText(t, n, field) \in {"null", "undefined"}

CoercionIssuesAt(t, n) ==
  {k \in DOMAIN reported :
     reported[k].type = "TYPE_COERCION" /\ reported[k].line = startRow(t, n) + 1}

\* C24: every == or != comparison whose operands are both not the literal
\* null / undefined yields exactly one TYPE_COERCION issue of severity medium,
\* wherever it occurs (nested inside another comparison included); one with
\* a null / undefined operand yields none.
C24_LooseComparisonReportedOnce ==
  (pc = "done" /\ op = "typeCoercion") =>
     \A n \in 1..tree.n :
        isLooseComparison(tree, n) =>
           IF HasNullOperand(tree, n) THEN CoercionIssuesAt(tree, n) = {}
           ELSE /\ Cardinality(CoercionIssuesAt(tree, n)) = 1
                /\ \A k \in CoercionIssuesAt(tree, n) : reported[k].severity = "medium"

(* ------------------------------ C25 ------------------------------------- *)

\* C25: when one detector invocation raises while a function is analysed,
\* the remaining detectors of that function and the remaining functions of
\* the file are still run, and parse still returns a FileAnalysis.
C25_DetectorFaultContained ==
  (pc = "done" /\ op = "parseWithFault" /\ fault.at # <<0, 0>>) =>
     /\ ~fault.threw
     /\ analysis # NoAnalysis
     /\ SeqToSet(fault.ran)
          = SeqToSet(Invocations(Len(AnalysedNodes(lang, tree))))

(* ------------------------------ C26 ------------------------------------- *)

\* the if, loop, switch, try and block node types of the grammars: for
\* JavaScript the for-in / for-of loop is a for_in_statement and the block a
\* statement_block
NestingTypes(languageName) ==
  IF IsPython(languageName) THEN PyBlockTypes
  ELSE JsBlockTypes \cup {"for_in_statement", "statement_block"}

\* the number of block-type nodes on the path from the function to the node
BlocksOnPath(languageName, t, functionNode, n) ==
  Cardinality({a \in (SeqToSet(Ancestors(t, n)) \cup {n}) \cap Subtree(t, functionNode) :
                 TypeOf(t, a) \in NestingTypes(languageName)})

DeepestPath(languageName, t, functionNode) ==
  SetMax({BlocksOnPath(languageName, t, functionNode, n) : n \in Subtree(t, functionNode)})

\* C26: the nestingDepth of a function is the maximum over the nodes of its
\* subtree of the number of block-type nodes (if, loop, switch, try, block) on
\* the path from the function node to the node, both included.
C26_NestingDepthIsDeepestPath ==
  (pc = "done" /\ op = "parse") =>
     \A i \in DOMAIN analysis.functions :
        \A j \in 1..tree.n :
           (startRow(tree, j) + 1 = analysis.functions[i].startLine
              /\ TypeOf(tree, j) \in FunctionDefinitionTypes)
             => analysis.functions[i].metrics.nestingDepth
                  = DeepestPath(lang, tree, j)

\* the same with the block types the parsers list
C26_NestingDepthOverListedTypes ==
  (pc = "done" /\ op = "parse") =>
     \A i \in DOMAIN analysis.functions :
        \A j \in 1..tree.n :
           (startRow(tree, j) + 1 = analysis.functions[i].startLine
              /\ TypeOf(tree, j) \in FunctionDefinitionTypes)
             => analysis.functions[i].metrics.nestingDepth
                  = SetMax({Cardinality({a \in (SeqToSet(Ancestors(tree, n)) \cup {n})
                                               \cap Subtree(tree, j) :
                                TypeOf(tree, a) \in IF IsPython(lang) THEN PyBlockTypes
                                                    ELSE JsBlockTypes}) :
                            n \in Subtree(tree, j)})

(* ------------------------------ C27 ------------------------------------- *)

\* the function node a FunctionInfo was built from
IsNodeOf(t, j, fn) ==
  TypeOf(t, j) \in FunctionDefinitionTypes /\ startRow(t, j) + 1 = fn.startLine

\* C27: a FunctionInfo is not changed after analyzeFunction returned it: the
\* functions and methods of the FileAnalysis are the records analyzeFunction
\* built, issues and metrics included.
C27_FunctionInfoUnchangedAfterConstruction ==
  (pc = "done" /\ op = "parse") =>
     /\ \A i \in DOMAIN analysis.functions :
           \A j \in 1..tree.n :
              IsNodeOf(tree, j, analysis.functions[i])
                => analysis.functions[i] = analyzeFunction(lang, tree, j)
     /\ \A k \in DOMAIN analysis.classes :
           \A i \in DOMAIN analysis.classes[k].methods :
              \A j \in 1..tree.n :
                 IsNodeOf(tree, j, analysis.classes[k].methods[i])
                   => analysis.classes[k].methods[i] = analyzeFunction(lang, tree, j)

(* ------------------------------ C28 ------------------------------------- *)

\* C28: every issue of every FunctionInfo of a FileAnalysis has a line, counted
\* from the start of the file, between the startLine and the endLine of the
\* function.
C28_IssueLinesInsideFunction ==
  (pc = "done" /\ op = "parse") =>
     \A i \in DOMAIN analysis.functions :
        \A k \in DOMAIN analysis.functions[i].issues :
           /\ analysis.functions[i].startLine <= analysis.functions[i].issues[k].line
           /\ analysis.functions[i].issues[k].line <= analysis.functions[i].endLine

(* ------------------------------ C29 ------------------------------------- *)

\* the TODO / FIXME / HACK comments of the file
TodoComments(t) ==
  {j \in 1..t.n : TypeOf(t, j) = "comment" /\ t.kind[j].text \in {"TODO", "FIXME", "HACK"}}

\* the places of the FileAnalysis where a TODO_COMMENT issue is listed
TodoIssues(a) ==
  {p \in FunctionIssues(a) : a.functions[p[1]].issues[p[2]].type = "TODO_COMMENT"}
  \cup {p \in MethodIssues(a) :
          a.classes[p[1]].methods[p[2]].issues[p[3]].type = "TODO_COMMENT"}

\* C29: each offending construct of a file is reported at most once in its
\* FileAnalysis (a construct inside a nested function belongs to exactly one
\* FunctionInfo), so there are no more issues than constructs: here, no more
\* TODO_COMMENT issues than TODO comments.
C29_ConstructReportedOnce ==
  (pc = "done" /\ op = "parse") =>
     Cardinality(TodoIssues(analysis)) <= Cardinality(TodoComments(tree))

(* ------------------------------ C30 ------------------------------------- *)

\* the stored records in the order they were saved
RECURSIVE SavedFrom(_, _)
SavedFrom(stored, id) ==
  IF id > NextId(stored) THEN <<>>
  ELSE SelectSeq(stored, LAMBDA r : r.id = id) \o SavedFrom(stored, id + 1)

InSavedOrder(stored) == SavedFrom(stored, 1)

\* C30: after any sequence of saveAnalysis, getRecentAnalyses and pruneHistory
\* calls, getStatistics reports trend "stable" when fewer than 6 analyses are
\* stored and otherwise the trend of the 5 most recently saved analyses against
\* the (up to 5) analyses saved immediately before them.
C30_TrendFromMostRecentlySaved ==
  (pc = "done" /\ op = "getStatistics") =>
     reported[1].trend = calculateTrend(InSavedOrder(history))

\* the query getRecentAnalyses leaves the stored order of analyses unchanged
C30_QueryKeepsStoredOrder ==
  [][(pc' = "done" /\ op' = "getRecentAnalyses") => history' = history]_vars

====
